---- MODULE Spec2Model ----
(***************************************************************************)
(* Droid Receipts: the SessionEnd hook src/hooks/generate-receipt.py (and  *)
(* the older plugin copy under src/.factory/plugins/droid-receipts).       *)
(*                                                                         *)
(* The pricing arithmetic of the renderers is Python float arithmetic      *)
(* (IEEE-754 binary64, round to nearest, ties to even).  The displayed     *)
(* figures depend on it to the last bit (f"{0.085:.2f}" is "0.09" because  *)
(* the double nearest 0.085 lies above it), so the model carries doubles   *)
(* exactly: a double is a 53-bit mantissa, kept as a sequence of 14-bit    *)
(* limbs because the checker's integers are 32 bits wide, and an exponent. *)
(***************************************************************************)
EXTENDS Integers, Sequences, FiniteSets, TLC

\* the value of an expression, computed once and then named: v in
\* TheOne({body : v \in {expression}})
TheOne(S) == CHOOSE v \in S : TRUE

(***************************************************************************)
(* Natural numbers of any size: little-endian sequences of limbs, each in  *)
(* 0 .. LimbBase-1, with no most-significant zero limb (zero is << >>).    *)
(***************************************************************************)
LimbBits == 14
LimbBase == 2 ^ LimbBits

RECURSIVE BTrim(_)
BTrim(s) ==
  IF s = << >> THEN << >>
  ELSE IF s[Len(s)] = 0 THEN BTrim(SubSeq(s, 1, Len(s) - 1))
  ELSE s

RECURSIVE BOfInt(_)
BOfInt(n) ==
  IF n = 0 THEN << >> ELSE <<n % LimbBase>> \o BOfInt(n \div LimbBase)

RECURSIVE BToInt(_)
BToInt(s) ==
  IF s = << >> THEN 0 ELSE s[1] + LimbBase * BToInt(Tail(s))

RECURSIVE BAddC(_, _, _)
BAddC(a, b, c) ==
  IF a = << >> /\ b = << >>
  THEN (IF c = 0 THEN << >> ELSE <<c>>)
  ELSE LET x == IF a = << >> THEN 0 ELSE a[1]
           y == IF b = << >> THEN 0 ELSE b[1]
           t == x + y + c
       IN  <<t % LimbBase>> \o
           BAddC(IF a = << >> THEN a ELSE Tail(a),
                 IF b = << >> THEN b ELSE Tail(b),
                 t \div LimbBase)

BAdd(a, b) == BAddC(a, b, 0)

\* a * k + c for a small k (k < 2^16)
RECURSIVE BMulSmallC(_, _, _)
BMulSmallC(a, k, c) ==
  IF a = << >>
  THEN BOfInt(c)
  ELSE LET t == a[1] * k + c
       IN  <<t % LimbBase>> \o BMulSmallC(Tail(a), k, t \div LimbBase)

BMulSmall(a, k) == BTrim(BMulSmallC(a, k, 0))

RECURSIVE BMul(_, _)
BMul(a, b) ==
  IF a = << >> \/ b = << >> THEN << >>
  ELSE BAdd(BMulSmall(a, b[1]),
            LET r == BMul(a, Tail(b))
            IN  IF r = << >> THEN r ELSE <<0>> \o r)

\* quotient and remainder of a by a small d (d <= 2^16), from the top limb down
RECURSIVE BDivSmallR(_, _, _)
BDivSmallR(a, d, r) ==
  IF a = << >>
  THEN [q |-> << >>, r |-> r]
  ELSE LET t    == r * LimbBase + a[Len(a)]
           rest == BDivSmallR(SubSeq(a, 1, Len(a) - 1), d, t % d)
       IN  [q |-> rest.q \o <<t \div d>>, r |-> rest.r]

BDivSmall(a, d) ==
  LET x == BDivSmallR(a, d, 0) IN [q |-> BTrim(x.q), r |-> x.r]

RECURSIVE IntBitLen(_)
IntBitLen(n) == IF n = 0 THEN 0 ELSE 1 + IntBitLen(n \div 2)

BBitLen(a) ==
  IF a = << >> THEN 0 ELSE (Len(a) - 1) * LimbBits + IntBitLen(a[Len(a)])

\* a * 2^k
BShl(a, k) ==
  IF a = << >> THEN a
  ELSE [i \in 1..(k \div LimbBits) |-> 0] \o BMulSmall(a, 2 ^ (k % LimbBits))

\* floor(a / 2^k)
BShr(a, k) ==
  LET drop == k \div LimbBits
  IN  IF drop >= Len(a) THEN << >>
      ELSE BDivSmall(SubSeq(a, drop + 1, Len(a)), 2 ^ (k % LimbBits)).q

\* bit k of a (bit 0 is the least significant)
BBit(a, k) ==
  LET i == k \div LimbBits + 1
  IN  IF i > Len(a) THEN 0 ELSE (a[i] \div 2 ^ (k % LimbBits)) % 2

\* whether a mod 2^k is non-zero
BLowNonZero(a, k) ==
  LET full == k \div LimbBits
  IN  \/ \E i \in 1..Len(a) : i <= full /\ a[i] # 0
      \/ (full + 1 <= Len(a) /\ a[full + 1] % (2 ^ (k % LimbBits)) # 0)

\* -1, 0, 1 as a < b, a = b, a > b
RECURSIVE BCmp(_, _)
BCmp(a, b) ==
  IF Len(a) # Len(b) THEN (IF Len(a) < Len(b) THEN -1 ELSE 1)
  ELSE IF a = << >> THEN 0
  ELSE IF a[Len(a)] # b[Len(b)] THEN (IF a[Len(a)] < b[Len(b)] THEN -1 ELSE 1)
  ELSE BCmp(SubSeq(a, 1, Len(a) - 1), SubSeq(b, 1, Len(b) - 1))

\* round(a / 2^k) to the nearest integer, ties to even; sticky says that the
\* true value lies strictly above a (a division left a remainder)
BRoundShr(a, k, sticky) ==
  IF k = 0 THEN a
  ELSE LET q    == BShr(a, k)
           half == BBit(a, k - 1) = 1
           low  == sticky \/ BLowNonZero(a, k - 1)
           odd  == BBit(a, k) = 1
       IN  IF half /\ (low \/ odd) THEN BAdd(q, <<1>>) ELSE q

(***************************************************************************)
(* Python floats >= 0: [m, e] is m * 2^e with 2^52 <= m < 2^53; zero is    *)
(* [m |-> << >>, e |-> 0].  The values of the program stay far from        *)
(* overflow and from the subnormal range.                                  *)
(***************************************************************************)
MantBits == 53
FZero == [m |-> << >>, e |-> 0]

\* the double nearest X * 2^e
FRound(X, e, sticky) ==
  LET L == BBitLen(X)
  IN  IF L = 0 THEN FZero
      ELSE IF L <= MantBits
      THEN [m |-> BShl(X, MantBits - L), e |-> e - (MantBits - L)]
      ELSE LET k == L - MantBits
               q == BRoundShr(X, k, sticky)
           IN  IF BBitLen(q) > MantBits
               THEN [m |-> BShr(q, 1), e |-> e + k + 1]
               ELSE [m |-> q, e |-> e + k]

\* float(n) for an int n, 0 <= n < 2^31
FOfInt(n) == FRound(BOfInt(n), 0, FALSE)

\* x * y
FMul(x, y) ==
  IF x.m = << >> \/ y.m = << >> THEN FZero
  ELSE FRound(BMul(x.m, y.m), x.e + y.e, FALSE)

\* x + y
FAdd(x, y) ==
  IF x.m = << >> THEN y
  ELSE IF y.m = << >> THEN x
  ELSE LET e == IF x.e < y.e THEN x.e ELSE y.e
       IN  FRound(BAdd(BShl(x.m, x.e - e), BShl(y.m, y.e - e)), e, FALSE)

RECURSIVE TwoAdic(_)
TwoAdic(d) == IF d % 2 = 0 THEN 1 + TwoAdic(d \div 2) ELSE 0

\* x / d for an int d > 0 whose odd part is below 2^16
FDivInt(x, d) ==
  IF x.m = << >> THEN FZero
  ELSE LET t   == TwoAdic(d)
           odd == d \div (2 ^ t)
           s   == IntBitLen(odd) + 2
           qr  == BDivSmall(BShl(x.m, s), odd)
       IN  FRound(qr.q, x.e - s - t, qr.r # 0)

\* the float literal num/den, e.g. 0.12 is FLit(12, 100)
FLit(num, den) == FDivInt(FOfInt(num), den)

\* x <= y
FLe(x, y) ==
  IF x.m = << >> THEN TRUE
  ELSE IF y.m = << >> THEN FALSE
  ELSE x.e < y.e \/ (x.e = y.e /\ BCmp(x.m, y.m) <= 0)

FLt(x, y) == FLe(x, y) /\ x # y

\* round(x * scale) to the nearest integer, ties to even on the exact value
\* of the double: the integer a "%.Nf" conversion prints, scale = 10^N
FRoundScaled(x, scale) ==
  IF x.m = << >> THEN 0
  ELSE LET X == BMulSmall(x.m, scale)
       IN  BToInt(IF x.e >= 0 THEN BShl(X, x.e) ELSE BRoundShr(X, 0 - x.e, FALSE))

(***************************************************************************)
(* Pricing constants and table (src/hooks/generate-receipt.py).            *)
(***************************************************************************)
PRICE_PER_MILLION == FLit(1, 1)
CACHE_PRICE_MULTIPLIER == FLit(1, 10)

\* the entries 2 and 6 are Python ints; an int below 2^53 multiplies, adds
\* and divides exactly as the float of the same value does
MODEL_MULTIPLIERS ==
  [k \in {"minimax-m2.5", "glm-4.7", "kimi-k2.5", "claude-haiku-4-5-20251001",
          "gpt-5.1", "gpt-5.1-codex", "gpt-5.1-codex-max", "gpt-5.2",
          "gpt-5.2-codex", "gpt-5.3-codex", "claude-sonnet-4-5-20250929",
          "claude-opus-4-5-20251101", "claude-opus-4-6", "claude-opus-4-6-fast",
          "glm-5"} |->
     CASE k = "minimax-m2.5" -> FLit(12, 100)
       [] k \in {"glm-4.7", "kimi-k2.5", "glm-5"} -> FLit(25, 100)
       [] k = "claude-haiku-4-5-20251001" -> FLit(4, 10)
       [] k \in {"gpt-5.1", "gpt-5.1-codex", "gpt-5.1-codex-max"} -> FLit(5, 10)
       [] k \in {"gpt-5.2", "gpt-5.2-codex", "gpt-5.3-codex"} -> FLit(7, 10)
       [] k = "claude-sonnet-4-5-20250929" -> FLit(12, 10)
       [] k \in {"claude-opus-4-5-20251101", "claude-opus-4-6"} -> FOfInt(2)
       [] k = "claude-opus-4-6-fast" -> FOfInt(6)]

(***************************************************************************)
(* A string the code splits is a sequence of pieces: the separator ":" or  *)
(* a run of characters holding no separator.  Join is the string itself.   *)
(***************************************************************************)
RECURSIVE Join(_)
Join(pieces) ==
  IF pieces = << >> THEN "" ELSE pieces[1] \o Join(Tail(pieces))

\* token_id.split(":")[-1]: scan from the right up to the first separator
RECURSIVE LastSegment(_)
LastSegment(pieces) ==
  IF pieces = << >> THEN << >>
  ELSE IF pieces[Len(pieces)] = ":" THEN << >>
  ELSE LastSegment(SubSeq(pieces, 1, Len(pieces) - 1)) \o <<pieces[Len(pieces)]>>

\* mutant: the first segment, token_id.split(":")[0]
RECURSIVE FirstSegment(_)
FirstSegment(pieces) ==
  IF pieces = << >> THEN << >>
  ELSE IF pieces[1] = ":" THEN << >>
  ELSE <<pieces[1]>> \o FirstSegment(Tail(pieces))

get_model_id_first(token_id) == Join(FirstSegment(token_id))

get_model_id(token_id) == Join(LastSegment(token_id))

get_model_multiplier(model) ==
  LET model_id == get_model_id(model)
  IN  IF model_id \in DOMAIN MODEL_MULTIPLIERS
      THEN MODEL_MULTIPLIERS[model_id]
      ELSE FLit(1, 1)

(***************************************************************************)
(* Formatters.                                                             *)
(***************************************************************************)
TwoDigits(n) == IF n < 10 THEN "0" \o ToString(n) ELSE ToString(n)

\* f"{x:.1f}"
FixedOne(x) ==
  LET t == FRoundScaled(x, 10) IN ToString(t \div 10) \o "." \o ToString(t % 10)

\* mutant: the cents cut off instead of rounded
format_currency_floor(amount) ==
  LET c == IF amount.m = << >> THEN 0
           ELSE BToInt(BShr(BMulSmall(amount.m, 100), 0 - amount.e))
  IN  "$" \o ToString(c \div 100) \o "." \o TwoDigits(c % 100)

\* f"${amount:.2f}"
format_currency(amount) ==
  LET c == FRoundScaled(amount, 100)
  IN  "$" \o ToString(c \div 100) \o "." \o TwoDigits(c % 100)

\* mutant: the suffixes from above 1,000 and above 1,000,000 only
format_tokens_above(n) ==
  IF FLt(FOfInt(1000000), n) THEN FixedOne(FDivInt(n, 1000000)) \o "M"
  ELSE IF FLt(FOfInt(1000), n) THEN FixedOne(FDivInt(n, 1000)) \o "K"
  ELSE ToString(FRoundScaled(n, 1))

\* the second definition of format_tokens is the one in force
format_tokens(n) ==
  IF FLe(FOfInt(1000000), n) THEN FixedOne(FDivInt(n, 1000000)) \o "M"
  ELSE IF FLe(FOfInt(1000), n) THEN FixedOne(FDivInt(n, 1000)) \o "K"
  ELSE ToString(FRoundScaled(n, 1))

(***************************************************************************)
(* Text.  A string of session data is the sequence of its characters (a    *)
(* table entry the code embeds whole is one piece of the sequence).        *)
(***************************************************************************)
\* str.replace(old, new) for a one-character old
RECURSIVE Replace(_, _, _)
Replace(text, old, new) ==
  IF text = << >> THEN << >>
  ELSE (IF text[1] = old THEN new ELSE <<text[1]>>) \o Replace(Tail(text), old, new)

\* text[:n]
Take(text, n) == IF Len(text) >= n THEN SubSeq(text, 1, n) ELSE text

\* mutant: the ampersand replaced last, after the entities are in the text
escape_xml_amp_last(text) ==
  Replace(Replace(Replace(Replace(Replace(text,
    "<", <<"&", "l", "t", ";">>),
    ">", <<"&", "g", "t", ";">>),
    "\"", <<"&", "q", "u", "o", "t", ";">>),
    "'", <<"&", "a", "p", "o", "s", ";">>),
    "&", <<"&", "a", "m", "p", ";">>)

escape_xml(text) ==
  Replace(Replace(Replace(Replace(Replace(text,
    "&", <<"&", "a", "m", "p", ";">>),
    "<", <<"&", "l", "t", ";">>),
    ">", <<"&", "g", "t", ";">>),
    "\"", <<"&", "q", "u", "o", "t", ";">>),
    "'", <<"&", "a", "p", "o", "s", ";">>)

escape_html(text) ==
  Replace(Replace(Replace(Replace(Replace(text,
    "&", <<"&", "a", "m", "p", ";">>),
    "<", <<"&", "l", "t", ";">>),
    ">", <<"&", "g", "t", ";">>),
    "\"", <<"&", "q", "u", "o", "t", ";">>),
    "'", <<"&", "#", "0", "3", "9", ";">>)

\* mutant: the minutes not reduced modulo 60
format_duration_whole_minutes(ms) ==
  IF ms \div 3600000 > 0
  THEN ToString(ms \div 3600000) \o "h " \o ToString(ms \div 60000) \o "m "
       \o ToString((ms \div 1000) % 60) \o "s"
  ELSE IF ms \div 60000 > 0
  THEN ToString(ms \div 60000) \o "m " \o ToString((ms \div 1000) % 60) \o "s"
  ELSE ToString(ms \div 1000) \o "s"

\* format_duration(ms) for an int ms >= 0
format_duration(ms) ==
  LET seconds == ms \div 1000
      minutes == seconds \div 60
      hours   == minutes \div 60
  IN  IF hours > 0
      THEN ToString(hours) \o "h " \o ToString(minutes % 60) \o "m "
           \o ToString(seconds % 60) \o "s"
      ELSE IF minutes > 0
      THEN ToString(minutes) \o "m " \o ToString(seconds % 60) \o "s"
      ELSE ToString(seconds) \o "s"

\* the display names of get_model_name
model_map ==
  [k \in {"claude-opus-4-6", "claude-opus-4-6-fast", "claude-opus-4-5-20251101",
          "claude-sonnet-4-5-20250929", "claude-haiku-4-5-20251001",
          "gpt-5.1-codex-max", "gpt-5.1-codex", "gpt-5.1", "gpt-5.2",
          "gpt-5.2-codex", "gpt-5.3-codex", "gemini-3-pro-preview",
          "gemini-3-flash-preview", "glm-4.7", "glm-5", "kimi-k2.5",
          "minimax-m2.5"} |->
     CASE k = "claude-opus-4-6" -> "Claude Opus 4.6"
       [] k = "claude-opus-4-6-fast" -> "Claude Opus 4.6 Fast"
       [] k = "claude-opus-4-5-20251101" -> "Claude Opus 4.5"
       [] k = "claude-sonnet-4-5-20250929" -> "Claude Sonnet 4.5"
       [] k = "claude-haiku-4-5-20251001" -> "Claude Haiku 4.5"
       [] k = "gpt-5.1-codex-max" -> "GPT-5.1 Codex Max"
       [] k = "gpt-5.1-codex" -> "GPT-5.1 Codex"
       [] k = "gpt-5.1" -> "GPT-5.1"
       [] k = "gpt-5.2" -> "GPT-5.2"
       [] k = "gpt-5.2-codex" -> "GPT-5.2 Codex"
       [] k = "gpt-5.3-codex" -> "GPT-5.3 Codex"
       [] k = "gemini-3-pro-preview" -> "Gemini 3 Pro"
       [] k = "gemini-3-flash-preview" -> "Gemini 3 Flash"
       [] k = "glm-4.7" -> "Droid Core (GLM-4.7)"
       [] k = "glm-5" -> "Droid Core (GLM-5)"
       [] k = "kimi-k2.5" -> "Droid Core (Kimi K2.5)"
       [] k = "minimax-m2.5" -> "MiniMax M2.5"]

\* model_map.get(model, model): the whole identifier is looked up
get_model_name(model) ==
  IF Join(model) \in DOMAIN model_map THEN <<model_map[Join(model)]>> ELSE model

Lowers == <<"a", "b", "c", "d", "e", "f", "g", "h", "i", "j", "k", "l", "m",
            "n", "o", "p", "q", "r", "s", "t", "u", "v", "w", "x", "y", "z">>
Uppers == <<"A", "B", "C", "D", "E", "F", "G", "H", "I", "J", "K", "L", "M",
            "N", "O", "P", "Q", "R", "S", "T", "U", "V", "W", "X", "Y", "Z">>

\* str.upper(), character by character
UpperChar(c) ==
  IF \E i \in 1..26 : Lowers[i] = c
  THEN Uppers[CHOOSE i \in 1..26 : Lowers[i] = c] ELSE c

HexDigits == <<"0", "1", "2", "3", "4", "5", "6", "7", "8", "9",
               "A", "B", "C", "D", "E", "F">>

\* int(c, 16) for c in "0123456789ABCDEF"
HexVal(c) == (CHOOSE i \in 1..16 : HexDigits[i] = c) - 1

prefixes == << <<"R", "2">>, <<"C", "3">>, <<"B", "B">>, <<"K", "2">>,
               <<"I", "G">>, <<"B", "D">>, <<"Q", "T">>, <<"A", "P">>,
               <<"R", "X">>, <<"T", "C">>, <<"G", "N", "K">>, <<"W", "E", "D">> >>

\* the hex characters of the identifier, upper-cased, padded to 8 with "0"
hex_chars(session_id) ==
  TheOne({ IF Len(h) < 8 THEN h \o [i \in 1..(8 - Len(h)) |-> "0"] ELSE h
           : h \in {SelectSeq([i \in 1..Len(session_id) |-> UpperChar(session_id[i])],
                              LAMBDA c : \E i \in 1..16 : HexDigits[i] = c)} })

\* mutant: the model number starts at the first hex character
generate_droid_name_from_first(session_id) ==
  TheOne({ prefixes[(HexVal(h[1]) % Len(prefixes)) + 1] \o <<"-">> \o SubSeq(h, 1, 3)
           : h \in {hex_chars(session_id)} })

generate_droid_name(session_id) ==
  TheOne({ prefixes[(HexVal(h[1]) % Len(prefixes)) + 1] \o <<"-">> \o SubSeq(h, 2, 4)
           : h \in {hex_chars(session_id)} })

(***************************************************************************)
(* The date of the receipt: datetime.fromisoformat on the timestamp with   *)
(* every "Z" replaced by "+00:00", for strings of the extended format      *)
(* YYYY-MM-DD[?HH[:MM[:SS[.f+]]][(+|-)HH:MM]], then strftime; any other    *)
(* string is not a timestamp.                                              *)
(***************************************************************************)
IsDigit(c) == \E i \in 1..10 : HexDigits[i] = c

\* text[i .. i+n-1] are digits
DigitsAt(text, i, n) ==
  i + n - 1 <= Len(text) /\ \A k \in i..(i + n - 1) : IsDigit(text[k])

\* int() of a string of digits
RECURSIVE DigitsVal(_)
DigitsVal(text) ==
  IF text = << >> THEN 0
  ELSE 10 * DigitsVal(SubSeq(text, 1, Len(text) - 1)) + HexVal(text[Len(text)])

IsLeap(y) == (y % 4 = 0 /\ y % 100 # 0) \/ y % 400 = 0

DaysIn(y, m) ==
  IF m = 2 THEN (IF IsLeap(y) THEN 29 ELSE 28)
  ELSE IF m \in {4, 6, 9, 11} THEN 30 ELSE 31

NoDate == [ok |-> FALSE, y |-> 0, mo |-> 0, d |-> 0, h |-> 0, mi |-> 0, s |-> 0]

\* the character at index i, "" past the end of the string
At(text, i) == IF i >= 1 /\ i <= Len(text) THEN text[i] ELSE ""

\* the index of the first non-digit at or after i
RECURSIVE SkipDigits(_, _)
SkipDigits(text, i) ==
  IF IsDigit(At(text, i)) THEN SkipDigits(text, i + 1) ELSE i

\* the fraction of a second, from index p up to (not including) index end:
\* up to six digits are read, further digits are dropped; left = 1 says
\* that the string goes on behind what was read
clock_fraction(text, p, end, vals) ==
  IF ~DigitsAt(text, p, IF end - p >= 6 THEN 6 ELSE end - p)
  THEN [ok |-> FALSE, left |-> 0, vals |-> vals]
  ELSE [ok |-> TRUE, vals |-> vals,
        left |-> IF At(text, SkipDigits(text, p)) # "" THEN 1 ELSE 0]

\* HH[[:]MM[[:]SS]][(.|,)f+] from index p up to index end, component i
\* (0 hours, 1 minutes, 2 seconds), as the interpreter's C parser reads it:
\* the separator is the one seen after the hours, and the character behind
\* a component is consumed before the end is looked at
RECURSIVE clock_fields(_, _, _, _, _, _)
clock_fields(text, p, end, i, has_sep, vals) ==
  IF i = 3 THEN clock_fraction(text, p, end, vals)
  ELSE IF ~DigitsAt(text, p, 2) THEN [ok |-> FALSE, left |-> 0, vals |-> vals]
  ELSE IF p + 3 >= end
  THEN [ok |-> TRUE, left |-> IF At(text, p + 2) # "" THEN 1 ELSE 0,
        vals |-> Append(vals, DigitsVal(SubSeq(text, p, p + 1)))]
  ELSE IF (IF i = 0 THEN At(text, p + 2) = ":" ELSE has_sep) /\ At(text, p + 2) = ":"
  THEN clock_fields(text, p + 3, end, i + 1, TRUE,
                    Append(vals, DigitsVal(SubSeq(text, p, p + 1))))
  ELSE IF At(text, p + 2) \in {".", ","}
  THEN clock_fraction(text, p + 3, end, Append(vals, DigitsVal(SubSeq(text, p, p + 1))))
  ELSE IF ~(IF i = 0 THEN At(text, p + 2) = ":" ELSE has_sep)
  THEN clock_fields(text, p + 2, end, i + 1, FALSE,
                    Append(vals, DigitsVal(SubSeq(text, p, p + 1))))
  ELSE [ok |-> FALSE, left |-> 0, vals |-> vals]

\* hours, minutes, seconds of what was read; a component not given is 0
ClockVal(vals, i) == IF i <= Len(vals) THEN vals[i] ELSE 0

\* the index of the first "+" or "-" at or after 1; when there is none, the
\* index behind the string (behind its first character when it is empty)
SignAt(text) ==
  IF \E i \in 1..Len(text) : text[i] \in {"+", "-"}
  THEN CHOOSE i \in 1..Len(text) :
         text[i] \in {"+", "-"} /\ \A j \in 1..(i - 1) : text[j] \notin {"+", "-"}
  ELSE IF text = << >> THEN 2 ELSE Len(text) + 1

\* the time of day behind the date and its separator: the clock up to the
\* sign of the UTC offset, then the offset, which is a clock of its own and
\* has to stay below 24 hours
clock_of(text) ==
  TheOne({ TheOne({
    IF ~c.ok THEN [ok |-> FALSE, vals |-> << >>]
    ELSE IF sign > Len(text) THEN [ok |-> c.left = 0, vals |-> c.vals]
    ELSE TheOne({
      [ok |-> /\ tz.ok /\ tz.left = 0
              /\ ClockVal(tz.vals, 1) * 3600 + ClockVal(tz.vals, 2) * 60
                 + ClockVal(tz.vals, 3) < 86400,
       vals |-> c.vals]
      : tz \in {clock_fields(text, sign + 1, Len(text) + 1, 0, FALSE, << >>)} })
    : c \in {clock_fields(text, 1, sign, 0, FALSE, << >>)} })
  : sign \in {SignAt(text)} })

\* the proleptic Gregorian ordinal of a day (1 is 0001-01-01), for y >= 1
days_before_year(y) ==
  (y - 1) * 365 + ((y - 1) \div 4) - ((y - 1) \div 100) + ((y - 1) \div 400)

RECURSIVE days_before_month(_, _)
days_before_month(y, m) ==
  IF m <= 1 THEN 0 ELSE days_before_month(y, m - 1) + DaysIn(y, m - 1)

ymd_to_ord(y, m, d) == days_before_year(y) + days_before_month(y, m) + d

\* 0 is Monday
weekday(y, m, d) == (ymd_to_ord(y, m, d) + 6) % 7

\* the ordinal of the Monday of ISO week 1 of a year
iso_week1_monday(y) ==
  TheOne({ first_day - first_weekday + (IF first_weekday > 3 THEN 7 ELSE 0)
           : first_day \in {ymd_to_ord(y, 1, 1)}, first_weekday \in {weekday(y, 1, 1)} })

\* the date of an ordinal >= 1
ord_to_ymd(ordinal) ==
  TheOne({ TheOne({
    [y |-> y, mo |-> mo, d |-> ordinal - days_before_year(y) - days_before_month(y, mo)]
    : mo \in {CHOOSE m \in 1..12 :
                /\ days_before_month(y, m) < ordinal - days_before_year(y)
                /\ ordinal - days_before_year(y) <= days_before_month(y, m) + DaysIn(y, m)} })
    : y \in {CHOOSE yy \in (((ordinal - 1) \div 366) + 1)..(((ordinal - 1) \div 365) + 1) :
               days_before_year(yy) < ordinal /\ ordinal <= days_before_year(yy + 1)} })

NoYmd == [ok |-> FALSE, y |-> 0, mo |-> 0, d |-> 0]

\* the day of an ISO year, week and week day; week 53 only in the years
\* that have one.  Year 0000 has no ordinal: not a date.
iso_to_ymd(iso_year, iso_week, iso_day) ==
  IF iso_year < 1 THEN NoYmd
  ELSE IF iso_week <= 0 \/ iso_week > 53 THEN NoYmd
  ELSE IF /\ iso_week = 53
          /\ ~(\/ weekday(iso_year, 1, 1) = 3
               \/ weekday(iso_year, 1, 1) = 2 /\ IsLeap(iso_year))
  THEN NoYmd
  ELSE IF iso_day <= 0 \/ iso_day >= 8 THEN NoYmd
  ELSE TheOne({ [ok |-> TRUE, y |-> ymd.y, mo |-> ymd.mo, d |-> ymd.d]
                : ymd \in {ord_to_ymd(iso_week1_monday(iso_year)
                                      + (iso_week - 1) * 7 + iso_day - 1)} })

\* where the date ends (the number of characters of the date), told from
\* characters 5 and 6 of a string of at least 7 characters: YYYY-MM-DD 10,
\* YYYYMMDD 8, YYYY-Www 8, YYYY-Www-D 10, YYYYWww 7, YYYYWwwD 8; -1: no date
find_isoformat_datetime_separator(text) ==
  IF Len(text) = 7 THEN 7
  ELSE IF text[5] = "-"
  THEN IF text[6] = "W"
       THEN IF Len(text) > 8 /\ text[9] = "-"
            THEN IF Len(text) = 9 THEN -1
                 ELSE IF Len(text) > 10 /\ IsDigit(text[11]) THEN 8 ELSE 10
            ELSE 8
       ELSE 10
  ELSE IF text[5] = "W"
  THEN TheOne({ IF idx < 9 THEN idx ELSE IF idx % 2 = 0 THEN 7 ELSE 8
                : idx \in {SkipDigits(text, 8) - 1} })
  ELSE 8

\* the date in the first len characters: the year, then "-" or not, then a
\* week date behind "W" or month and day, separated as the year is; len is
\* an unsigned number in the code, so -1 is a length beyond every string
parse_isoformat_date(text, len) ==
  IF ~DigitsAt(text, 1, 4) THEN NoYmd
  ELSE TheOne({
    IF At(text, p) = "W"
    THEN IF ~DigitsAt(text, p + 1, 2) THEN NoYmd
         ELSE IF len = -1 \/ p + 2 < len
         THEN IF uses_separator /\ At(text, p + 3) # "-" THEN NoYmd
              ELSE TheOne({
                     IF ~IsDigit(At(text, q)) THEN NoYmd
                     ELSE iso_to_ymd(DigitsVal(SubSeq(text, 1, 4)),
                                     DigitsVal(SubSeq(text, p + 1, p + 2)),
                                     DigitsVal(<<text[q]>>))
                     : q \in {IF uses_separator THEN p + 4 ELSE p + 3} })
         ELSE iso_to_ymd(DigitsVal(SubSeq(text, 1, 4)),
                         DigitsVal(SubSeq(text, p + 1, p + 2)), 1)
    ELSE IF ~DigitsAt(text, p, 2) THEN NoYmd
    ELSE IF uses_separator /\ At(text, p + 2) # "-" THEN NoYmd
    ELSE TheOne({
           IF ~DigitsAt(text, q, 2) THEN NoYmd
           ELSE [ok |-> TRUE, y |-> DigitsVal(SubSeq(text, 1, 4)),
                 mo |-> DigitsVal(SubSeq(text, p, p + 1)),
                 d |-> DigitsVal(SubSeq(text, q, q + 1))]
           : q \in {IF uses_separator THEN p + 3 ELSE p + 2} })
    : uses_separator \in {At(text, 5) = "-"},
      p \in {IF At(text, 5) = "-" THEN 6 ELSE 5} })

\* datetime.fromisoformat(text): the fields strftime prints, or not ok.  The
\* character behind the date is the separator, whatever it is; the time of
\* day follows it.
fromisoformat(text) ==
  IF Len(text) < 7 THEN NoDate
  ELSE TheOne({ TheOne({
    IF ~(/\ date.ok /\ date.y >= 1 /\ date.y <= 9999 /\ date.mo \in 1..12
         /\ date.d >= 1 /\ date.d <= DaysIn(date.y, date.mo))
    THEN NoDate
    ELSE IF separator_location = -1 \/ Len(text) <= separator_location
    THEN [ok |-> TRUE, y |-> date.y, mo |-> date.mo, d |-> date.d,
          h |-> 0, mi |-> 0, s |-> 0]
    ELSE TheOne({
      IF /\ c.ok /\ ClockVal(c.vals, 1) < 24 /\ ClockVal(c.vals, 2) < 60
         /\ ClockVal(c.vals, 3) < 60
      THEN [ok |-> TRUE, y |-> date.y, mo |-> date.mo, d |-> date.d,
            h |-> ClockVal(c.vals, 1), mi |-> ClockVal(c.vals, 2),
            s |-> ClockVal(c.vals, 3)]
      ELSE NoDate
      : c \in {clock_of(SubSeq(text, separator_location + 2, Len(text)))} })
    : date \in {parse_isoformat_date(text, separator_location)} })
    : separator_location \in {find_isoformat_datetime_separator(text)} })

Pad2(n) == <<HexDigits[(n \div 10) + 1], HexDigits[(n % 10) + 1]>>

\* the digits of a number >= 0, without padding
RECURSIVE Digits(_)
Digits(n) ==
  IF n < 10 THEN <<HexDigits[n + 1]>> ELSE Digits(n \div 10) \o <<HexDigits[(n % 10) + 1]>>

\* dt.strftime("%Y-%m-%d %H:%M:%S"): the C library prints %Y without
\* padding, so a year below 1000 has fewer than four digits
strftime(dt) ==
  Digits(dt.y) \o <<"-">> \o Pad2(dt.mo) \o <<"-">>
  \o Pad2(dt.d) \o <<" ">> \o Pad2(dt.h) \o <<":">> \o Pad2(dt.mi) \o <<":">>
  \o Pad2(dt.s)

\* try: fromisoformat(end_time.replace("Z", "+00:00")), strftime;
\* except: the raw string
format_date(end_time) ==
  TheOne({ IF dt.ok THEN strftime(dt) ELSE end_time
           : dt \in {fromisoformat(Replace(end_time, "Z",
                                           <<"+", "0", "0", ":", "0", "0">>))} })

(***************************************************************************)
(* The renderers' cost computation.  tokens is the tokenUsage dict: a      *)
(* function from some of the four keys to counts.                          *)
(***************************************************************************)
TokenKeys == {"inputTokens", "outputTokens", "cacheCreationTokens", "cacheReadTokens"}

\* tokens.get(key, 0)
TokensGet(tokens, key) == IF key \in DOMAIN tokens THEN tokens[key] ELSE 0

\* mutant: the raw count kept in 16 bits
html_billed_wrapped(raw, model_multiplier) ==
  FMul(FOfInt(raw % 65536), model_multiplier)

\* raw * model_multiplier
html_billed(raw, model_multiplier) == FMul(FOfInt(raw), model_multiplier)

\* mutant: cache reads billed like the other categories
html_billed_cache_read_full(raw, model_multiplier) ==
  FMul(FOfInt(raw), model_multiplier)

\* cache_read * model_multiplier * CACHE_PRICE_MULTIPLIER
html_billed_cache_read(raw, model_multiplier) ==
  FMul(FMul(FOfInt(raw), model_multiplier), CACHE_PRICE_MULTIPLIER)

\* x_factory / 1_000_000 * PRICE_PER_MILLION
html_cost(billed) == FMul(FDivInt(billed, 1000000), PRICE_PER_MILLION)

\* total_cost: from the sum of the billed tokens, in one division
html_total_cost(factory_tokens) ==
  FMul(FDivInt(factory_tokens, 1000000), PRICE_PER_MILLION)

\* the locals of generate_html up to the cost figures, each assignment
\* evaluated once, in the order of the code (read from the last line up)
html_locals(session_data) ==
  TheOne({ TheOne({ TheOne({ TheOne({
    [input_tokens |-> input_tokens, output_tokens |-> output_tokens,
     cache_write |-> cache_write, cache_read |-> cache_read,
     total_raw_tokens |-> input_tokens + output_tokens + cache_write + cache_read,
     model_multiplier |-> model_multiplier,
     input_factory |-> input_factory, output_factory |-> output_factory,
     cache_write_factory |-> cache_write_factory,
     cache_read_factory |-> cache_read_factory,
     factory_tokens |-> factory_tokens,
     total_cost |-> total_cost,
     total_cost_str |-> format_currency(total_cost),
     input_cost |-> html_cost(input_factory),
     output_cost |-> html_cost(output_factory),
     cache_write_cost |-> html_cost(cache_write_factory),
     cache_read_cost |-> html_cost(cache_read_factory)]
    : total_cost \in {html_total_cost(factory_tokens)} })
    : factory_tokens \in
        {FAdd(FAdd(FAdd(input_factory, output_factory), cache_write_factory),
              cache_read_factory)} })
    : input_factory \in {html_billed(input_tokens, model_multiplier)},
      output_factory \in {html_billed(output_tokens, model_multiplier)},
      cache_write_factory \in {html_billed(cache_write, model_multiplier)},
      cache_read_factory \in {html_billed_cache_read(cache_read, model_multiplier)} })
    : input_tokens \in {TokensGet(session_data.tokens, "inputTokens")},
      output_tokens \in {TokensGet(session_data.tokens, "outputTokens")},
      cache_write \in {TokensGet(session_data.tokens, "cacheCreationTokens")},
      cache_read \in {TokensGet(session_data.tokens, "cacheReadTokens")},
      model_multiplier \in {get_model_multiplier(session_data.model)} })

\* one line item of a document
Item(label, qty, price) == [label |-> label, qty |-> qty, price |-> price]

\* generate_html: the document is the figures it interpolates, in order
generate_html(session_data) ==
  TheOne({
    [exc    |-> "",
     locals |-> v,
     items  |-> <<Item("Input tokens", format_tokens(v.input_factory),
                       format_currency(v.input_cost)),
                  Item("Output tokens", format_tokens(v.output_factory),
                       format_currency(v.output_cost))>>
                \o (IF v.cache_write > 0
                    THEN <<Item("Cache write", format_tokens(v.cache_write_factory),
                                format_currency(v.cache_write_cost))>>
                    ELSE << >>)
                \o (IF v.cache_read > 0
                    THEN <<Item("Cache read", format_tokens(v.cache_read_factory),
                                format_currency(v.cache_read_cost))>>
                    ELSE << >>),
     total  |-> v.total_cost_str]
    : v \in {html_locals(session_data)} })

svg_billed(raw, model_multiplier) == FMul(FOfInt(raw), model_multiplier)

\* mutant: the discount left out of the SVG renderer
svg_billed_cache_read_full(raw, model_multiplier) ==
  FMul(FOfInt(raw), model_multiplier)

svg_billed_cache_read(raw, model_multiplier) ==
  FMul(FMul(FOfInt(raw), model_multiplier), CACHE_PRICE_MULTIPLIER)

svg_cost(billed) == FMul(FDivInt(billed, 1000000), PRICE_PER_MILLION)

\* total_cost_val: the sum of the four category costs
svg_total_cost_val(input_cost, output_cost, cache_write_cost, cache_read_cost) ==
  FAdd(FAdd(FAdd(input_cost, output_cost), cache_write_cost), cache_read_cost)

\* the locals of generate_svg up to the cost figures, each assignment
\* evaluated once, in the order of the code (read from the last line up)
svg_locals(session_data) ==
  TheOne({ TheOne({ TheOne({
    [input_tokens |-> input_tokens, output_tokens |-> output_tokens,
     cache_write |-> cache_write, cache_read |-> cache_read,
     model_multiplier |-> model_multiplier,
     input_factory |-> input_factory, output_factory |-> output_factory,
     cache_write_factory |-> cache_write_factory,
     cache_read_factory |-> cache_read_factory,
     factory_tokens |-> FAdd(FAdd(FAdd(input_factory, output_factory),
                                  cache_write_factory), cache_read_factory),
     input_cost |-> input_cost, output_cost |-> output_cost,
     cache_write_cost |-> cache_write_cost, cache_read_cost |-> cache_read_cost,
     total_cost_val |-> svg_total_cost_val(input_cost, output_cost,
                                           cache_write_cost, cache_read_cost)]
    : input_cost \in {svg_cost(input_factory)},
      output_cost \in {svg_cost(output_factory)},
      cache_write_cost \in {svg_cost(cache_write_factory)},
      cache_read_cost \in {svg_cost(cache_read_factory)} })
    : input_factory \in {svg_billed(input_tokens, model_multiplier)},
      output_factory \in {svg_billed(output_tokens, model_multiplier)},
      cache_write_factory \in {svg_billed(cache_write, model_multiplier)},
      cache_read_factory \in {svg_billed_cache_read(cache_read, model_multiplier)} })
    : input_tokens \in {TokensGet(session_data.tokens, "inputTokens")},
      output_tokens \in {TokensGet(session_data.tokens, "outputTokens")},
      cache_write \in {TokensGet(session_data.tokens, "cacheCreationTokens")},
      cache_read \in {TokensGet(session_data.tokens, "cacheReadTokens")},
      model_multiplier \in {get_model_multiplier(session_data.model)} })

\* generate_svg: the cache line items call format_number and the total
\* section reads total_cost; the module defines neither name, so evaluating
\* the first of them raises NameError and no document is returned.  Up to
\* there the two fixed line items are in the string, at y 290 and 310, and
\* y_offset is 330.
generate_svg(session_data) ==
  TheOne({
    [exc    |-> IF v.cache_write > 0 \/ v.cache_read > 0
                THEN "NameError: format_number"
                ELSE "NameError: total_cost",
     locals |-> v,
     items  |-> <<Item("Input tokens", format_tokens(v.input_factory),
                       format_currency(v.input_cost)),
                  Item("Output tokens", format_tokens(v.output_factory),
                       format_currency(v.output_cost))>>,
     ys     |-> <<290, 310>>,
     y_offset |-> 330,
     total  |-> ""]
    : v \in {svg_locals(session_data)} })

(***************************************************************************)
(* The text fields the renderers embed.  session_data carries session_id,  *)
(* location, model, end_time and active_time_ms, as main builds it.        *)
(***************************************************************************)
\* session_id[:8] if len(session_id) >= 8 else session_id
session_short(session_id) ==
  IF Len(session_id) >= 8 THEN SubSeq(session_id, 1, 8) ELSE session_id

\* generate_html: what is embedded in the model badge, the meta rows, the
\* footer and the script, after the "Escape text" block
html_text(sd) ==
  [model_name    |-> escape_html(get_model_name(sd.model)),
   location      |-> escape_html(Take(sd.location, 30)),
   session_short |-> escape_html(session_short(sd.session_id)),
   date_str      |-> format_date(sd.end_time),
   duration_str  |-> format_duration(sd.active_time_ms),
   droid_name    |-> escape_html(generate_droid_name(sd.session_id))]

\* generate_svg of src/hooks: the same locals, escaped for XML
svg_text(sd) ==
  [model_name    |-> escape_xml(get_model_name(sd.model)),
   location      |-> escape_xml(Take(sd.location, 30)),
   session_short |-> escape_xml(session_short(sd.session_id)),
   date_str      |-> format_date(sd.end_time),
   duration_str  |-> format_duration(sd.active_time_ms),
   droid_name    |-> escape_xml(generate_droid_name(sd.session_id))]

\* generate_svg of the plugin: no served-by label
plugin_svg_text(sd) ==
  [model_name    |-> escape_xml(get_model_name(sd.model)),
   location      |-> escape_xml(Take(sd.location, 30)),
   session_short |-> escape_xml(session_short(sd.session_id)),
   date_str      |-> format_date(sd.end_time),
   duration_str  |-> format_duration(sd.active_time_ms)]

(***************************************************************************)
(* Inputs of the pricing checks.                                           *)
(***************************************************************************)
MaxDoublings == 2
TokenUnit == 50000

\* the raw counts tried: 0, 50000, 100000, 200000
TokenCounts == {0} \cup {TokenUnit * 2 ^ k : k \in 0..MaxDoublings}

ModelIds ==
  { <<"gpt-5.1">>, <<"x", ":", "y", ":", "gpt-5.1">>, <<"gpt-5.1", ":", "x">>,
    <<"gpt-5.1", ":">>, <<"claude-opus-4-6">>, <<"minimax-m2.5">>,
    <<"claude-sonnet-4-5-20250929">>, <<"unknown">> }

NextCount(n) ==
  IF n = 0 THEN TokenUnit ELSE 2 * n

(***************************************************************************)
(* The older plugin copy (src/.factory/plugins/droid-receipts): flat       *)
(* pricing of the raw counts, SVG only.                                    *)
(***************************************************************************)
ThreeDigits(n) ==
  IF n < 10 THEN "00" \o ToString(n)
  ELSE IF n < 100 THEN "0" \o ToString(n) ELSE ToString(n)

\* f"{n:,}"
RECURSIVE format_number(_)
format_number(n) ==
  IF n < 1000 THEN ToString(n)
  ELSE format_number(n \div 1000) \o "," \o ThreeDigits(n % 1000)

\* the plugin's format_currency takes a token count
plugin_format_currency(tokens) ==
  format_currency(FMul(FDivInt(FOfInt(tokens), 1000000), PRICE_PER_MILLION))

plugin_generate_svg(session_data) ==
  LET tokens        == session_data.tokens
      input_tokens  == TokensGet(tokens, "inputTokens")
      output_tokens == TokensGet(tokens, "outputTokens")
      cache_write   == TokensGet(tokens, "cacheCreationTokens")
      cache_read    == TokensGet(tokens, "cacheReadTokens")
      total_tokens  == input_tokens + output_tokens + cache_write + cache_read
  IN  [exc    |-> "",
       items  |-> <<Item("Input tokens", format_number(input_tokens),
                         plugin_format_currency(input_tokens)),
                    Item("Output tokens", format_number(output_tokens),
                         plugin_format_currency(output_tokens))>>
                  \o (IF cache_write > 0
                      THEN <<Item("Cache write", format_number(cache_write),
                                  plugin_format_currency(cache_write))>>
                      ELSE << >>)
                  \o (IF cache_read > 0
                      THEN <<Item("Cache read", format_number(cache_read),
                                  plugin_format_currency(cache_read))>>
                      ELSE << >>),
       ys     |-> <<285, 305>>
                  \o (IF cache_write > 0 THEN <<325>> ELSE << >>)
                  \o (IF cache_read > 0
                      THEN <<IF cache_write > 0 THEN 345 ELSE 325>> ELSE << >>),
       total_y |-> 345 + (IF cache_write > 0 THEN 20 ELSE 0)
                       + (IF cache_read > 0 THEN 20 ELSE 0),
       total  |-> plugin_format_currency(total_tokens)]

(***************************************************************************)
(* main: one run of the hook.  A run reads its stdin, the session settings *)
(* file and the transcript, then works on the file system it shares with   *)
(* every other run: mkdir, and per document render, open("w"), write.      *)
(***************************************************************************)
\* Path.home() / ".factory" / "receipts", as absolute path components
RECEIPTS_DIR == <<"home", ".factory", "receipts">>

\* the components of a string split at "/" (pieces: "/" or separator-free text)
RECURSIVE SplitSlash(_, _)
SplitSlash(pieces, cur) ==
  IF pieces = << >> THEN <<cur>>
  ELSE IF pieces[1] = "/" THEN <<cur>> \o SplitSlash(Tail(pieces), "")
  ELSE SplitSlash(Tail(pieces), cur \o pieces[1])

\* pathlib drops empty and "." components
PathParts(pieces) ==
  SelectSeq(SplitSlash(pieces, ""), LAMBDA c : c # "" /\ c # ".")

\* RECEIPTS_DIR / f"{session_id}.{ext}": an absolute right operand replaces
\* the directory
receipt_path(session_id, ext) ==
  LET name == session_id \o <<"." \o ext>>
  IN  IF name[1] = "/" THEN PathParts(name) ELSE RECEIPTS_DIR \o PathParts(name)

Parent(path) == SubSeq(path, 1, Len(path) - 1)

Prefixes(path) == {SubSeq(path, 1, n) : n \in 0..Len(path)}

\* str.lower(), on text of ASCII characters: a capital letter becomes the
\* small one, every other character stays
LowerChar(c) ==
  IF \E i \in 1..26 : Uppers[i] = c
  THEN Lowers[CHOOSE i \in 1..26 : Uppers[i] = c] ELSE c

Lower(str) == [i \in 1..Len(str) |-> LowerChar(str[i])]

\* mutant: a value that names no format is taken as the default
output_format_default_html(env) ==
  IF env.set /\ Lower(env.val) \in {<<"h", "t", "m", "l">>, <<"s", "v", "g">>, <<"b", "o", "t", "h">>}
  THEN Lower(env.val)
  ELSE <<"h", "t", "m", "l">>

\* os.environ.get("DROID_RECEIPT_FORMAT", "html").lower()
output_format(env) == Lower(IF env.set THEN env.val ELSE <<"h", "t", "m", "l">>)

\* the documents a run renders, in order
formats_to_emit(script, env) ==
  IF script = "plugin" THEN <<"svg">>
  ELSE (IF output_format(env) \in {<<"h", "t", "m", "l">>, <<"b", "o", "t", "h">>}
        THEN <<"html">> ELSE << >>)
       \o (IF output_format(env) \in {<<"s", "v", "g">>, <<"b", "o", "t", "h">>}
           THEN <<"svg">> ELSE << >>)

\* "if not tokens": the tokenUsage value is falsy (null, an empty object,
\* the number 0)
tokens_falsy(usage) ==
  \/ usage.type = "null"
  \/ usage.type = "dict" /\ DOMAIN usage.val = {}
  \/ usage.type = "number" /\ usage.num = 0

\* settings.get("tokenUsage", {})
settings_tokens(obj) ==
  IF "tokenUsage" \in DOMAIN obj THEN obj["tokenUsage"]
  ELSE [type |-> "dict", val |-> << >>]

\* settings.get("model", "unknown")
settings_model(obj) ==
  IF "model" \in DOMAIN obj THEN obj["model"] ELSE <<"unknown">>

\* datetime.now().isoformat(): the clock of the machine at the time of the run
Now == <<"2", "0", "2", "6", "-", "1", "0", "-", "2", "9", "T", "2", "2", ":", "0", "0", ":", "0", "0", ".", "2", "5", "0", "0", "0", "0">>

\* A transcript line is what the scan can tell apart: "blank" (nothing left
\* by strip()), "malformed" (json.loads raises), "scalar" (a JSON number,
\* null, true or false: the "in" test raises TypeError), "text" (a JSON
\* string or list that holds "timestamp": the "in" test is true and the
\* subscript raises TypeError), "object" (a JSON object, with or without a
\* "timestamp" key), "undecodable" (bytes the codec of open() rejects).
\* json.loads succeeded and "timestamp" in entry is true, entry["timestamp"]
\* is read
carries_timestamp(line) == line.kind = "object" /\ line.has_timestamp

\* mutant: no end time when no line carries a timestamp
RECURSIVE last_timestamp_no_fallback(_)
last_timestamp_no_fallback(lines) ==
  IF lines = << >> THEN << >>
  ELSE IF carries_timestamp(lines[Len(lines)])
       THEN lines[Len(lines)].timestamp
       ELSE last_timestamp_no_fallback(SubSeq(lines, 1, Len(lines) - 1))

\* the transcript scan, for line in reversed(list(f)): the timestamp of the
\* last line that parses and carries one, the current time when there is none
RECURSIVE last_timestamp(_)
last_timestamp(lines) ==
  IF lines = << >> THEN Now
  ELSE IF carries_timestamp(lines[Len(lines)])
       THEN lines[Len(lines)].timestamp
       ELSE last_timestamp(SubSeq(lines, 1, Len(lines) - 1))

\* list(f) decodes the whole file before the first line is looked at
decodes(transcript) ==
  \A i \in 1..Len(transcript.lines) : transcript.lines[i].kind # "undecodable"

\* the number of characters of a text given in pieces
RECURSIVE CharLen(_)
CharLen(text) ==
  IF text = << >> THEN 0 ELSE Len(text[1]) + CharLen(Tail(text))

\* the characters of the line items of a document: the markup of each
\* cache line item, which is there only when the item is, and the quantity
\* and price strings
RECURSIVE item_bytes(_, _, _)
item_bytes(items, cache_write_bytes, cache_read_bytes) ==
  IF items = << >> THEN 0
  ELSE (CASE items[1].label = "Cache write" -> cache_write_bytes
          [] items[1].label = "Cache read" -> cache_read_bytes
          [] OTHER -> 0)
       + Len(items[1].qty) + Len(items[1].price)
       + item_bytes(Tail(items), cache_write_bytes, cache_read_bytes)

\* the fixed text of the HTML template with the two fixed line items, and
\* of the blocks of its cache line items
HtmlTemplateBytes == 13129
HtmlCacheWriteBytes == 164
HtmlCacheReadBytes == 163

\* len(html_content): the template, the session prefix three times (title,
\* meta row, script), the total twice (total row, script), every other
\* field once
html_bytes(text, doc) ==
  HtmlTemplateBytes + 3 * CharLen(text.session_short) + CharLen(text.model_name)
  + CharLen(text.location) + CharLen(text.date_str) + Len(text.duration_str)
  + CharLen(text.droid_name)
  + item_bytes(doc.items, HtmlCacheWriteBytes, HtmlCacheReadBytes)
  + 2 * Len(doc.total)

\* the same of the plugin's SVG template
PluginSvgTemplateBytes == 3648
PluginSvgCacheWriteBytes == 184
PluginSvgCacheReadBytes == 183

\* len(svg_content) of the plugin: the model name twice (item head, cashier)
plugin_svg_bytes(text, doc) ==
  PluginSvgTemplateBytes + CharLen(text.session_short) + 2 * CharLen(text.model_name)
  + CharLen(text.location) + CharLen(text.date_str) + Len(text.duration_str)
  + item_bytes(doc.items, PluginSvgCacheWriteBytes, PluginSvgCacheReadBytes)
  + Len(doc.total)

\* a renderer applied to the session data of a run: the figures of the
\* document, its date field and its length
render(script, format, sd) ==
  IF sd.tokens.type # "dict"
  THEN [exc |-> "AttributeError: get", items |-> << >>, total |-> ""]
  ELSE TheOne({
         IF script = "plugin"
         THEN [exc |-> doc.exc, items |-> doc.items, total |-> doc.total,
               date_str |-> format_date(sd.end_time),
               ys |-> doc.ys, total_y |-> doc.total_y,
               size |-> plugin_svg_bytes(plugin_svg_text(sd), doc)]
         ELSE IF format = "html"
         THEN [exc |-> doc.exc, items |-> doc.items, total |-> doc.total,
               date_str |-> format_date(sd.end_time),
               size |-> html_bytes(html_text(sd), doc)]
         ELSE [exc |-> doc.exc, items |-> doc.items, total |-> doc.total,
               date_str |-> format_date(sd.end_time)]
         : doc \in {IF script = "plugin" THEN plugin_generate_svg([model |-> sd.model, tokens |-> sd.tokens.val])
                    ELSE IF format = "html"
                    THEN generate_html([model |-> sd.model, tokens |-> sd.tokens.val])
                    ELSE generate_svg([model |-> sd.model, tokens |-> sd.tokens.val])} })

\* what a document is made of, in order: head, line items, total and foot
Chunks(p, format, doc) ==
  <<[by |-> p, format |-> format, part |-> "head"]>>
  \o [i \in 1..Len(doc.items) |-> [by |-> p, format |-> format, part |-> doc.items[i]]]
  \o <<[by |-> p, format |-> format, part |-> doc.total]>>

\* The content of a file is a sequence of stretches of documents: the bytes
\* from (counted from 0) up to, not including, to of a document.
\* a whole document of size bytes
Whole(chunks, size) == <<[doc |-> chunks, from |-> 0, to |-> size]>>

RECURSIVE BytesOf(_)
BytesOf(content) ==
  IF content = << >> THEN 0
  ELSE content[1].to - content[1].from + BytesOf(Tail(content))

\* the content behind its first n bytes
RECURSIVE DropBytes(_, _)
DropBytes(content, n) ==
  IF content = << >> THEN << >>
  ELSE IF n >= content[1].to - content[1].from
  THEN DropBytes(Tail(content), n - (content[1].to - content[1].from))
  ELSE <<[content[1] EXCEPT !.from = @ + n]>> \o Tail(content)

\* a write at offset 0 of a file opened with "w": the bytes past the end of
\* what is written stay as another writer left them
Overlay(old, new) == new \o DropBytes(old, BytesOf(new))

NoDoc == [exc |-> "", items |-> << >>, total |-> ""]
NoData == [session_id |-> << >>, location |-> << >>, model |-> << >>,
           tokens |-> [type |-> "null"], end_time |-> << >>, active_time_ms |-> 0]

\* sys.exit(0) on a skip, and the return from main
exit_run(r, message) ==
  [r EXCEPT !.pc = "done", !.exit_code = 0,
            !.stderr = IF message = "" THEN @ ELSE Append(@, message)]

\* mutant: the exception not caught: traceback and exit status 1
handle_exception_uncaught(r, e) ==
  [r EXCEPT !.pc = "done", !.exit_code = 1, !.stderr = Append(@, "Traceback: " \o e)]

\* except Exception as e: print to stderr, sys.exit(0)
handle_exception(r, e) ==
  [r EXCEPT !.pc = "done", !.exit_code = 0,
            !.stderr = Append(@, "Error generating receipt: " \o e)]

\* mutant: the receipts directory made before the settings are looked at
pc_after_load_early_mkdir(hook) == "mkdir"

\* where main stands after reading its inputs: "skip" (a sys.exit(0) before
\* any output), "error" (an exception), "mkdir" (go on)
pc_after_load(hook) ==
  IF hook.stdin # "object" THEN "error"
  ELSE IF hook.settings.kind = "missing" THEN "skip"
  ELSE IF hook.settings.kind # "object" THEN "error"
  ELSE IF tokens_falsy(settings_tokens(hook.settings.obj)) THEN "skip"
  ELSE IF hook.transcript.kind = "unreadable" THEN "error"
  ELSE IF hook.transcript.kind = "lines" /\ ~decodes(hook.transcript) THEN "error"
  ELSE "mkdir"

load_message(hook) ==
  IF hook.stdin = "invalid" THEN "JSONDecodeError"
  ELSE IF hook.stdin = "nonobject" THEN "AttributeError: get"
  ELSE IF hook.settings.kind = "missing" THEN "No session settings found"
  ELSE IF hook.settings.kind = "unreadable" THEN "PermissionError"
  ELSE IF hook.settings.kind = "malformed" THEN "JSONDecodeError"
  ELSE IF hook.settings.kind = "nonobject" THEN "AttributeError: get"
  ELSE IF tokens_falsy(settings_tokens(hook.settings.obj))
       THEN "No token usage data available"
  ELSE IF hook.transcript.kind = "unreadable" THEN "PermissionError"
  ELSE "UnicodeDecodeError"

\* Path(cwd).name: the hook input names a working directory .../proj
Location == <<"p", "r", "o", "j">>

\* the session_data dict main builds; the settings files carry no
\* assistantActiveTimeMs, so the active time is the default 0
build_session_data(hook) ==
  [session_id |-> hook.session_id,
   location   |-> Location,
   model      |-> settings_model(hook.settings.obj),
   tokens     |-> settings_tokens(hook.settings.obj),
   end_time   |-> IF hook.transcript.kind = "lines"
                  THEN last_timestamp(hook.transcript.lines) ELSE Now,
   active_time_ms |-> 0]

(***************************************************************************)
(* Inputs of the runs.                                                     *)
(***************************************************************************)
MaxRuns == 2
Procs == 1..MaxRuns

GoodUsageA ==
  [type |-> "dict",
   val  |-> [inputTokens |-> 100000, outputTokens |-> 50000,
             cacheCreationTokens |-> 0, cacheReadTokens |-> 200000]]
GoodUsageB ==
  [type |-> "dict",
   val  |-> [inputTokens |-> 50000, outputTokens |-> 50000,
             cacheCreationTokens |-> 50000, cacheReadTokens |-> 50000]]

GoodUsageSettings ==
  [kind |-> "object", obj |-> [tokenUsage |-> GoodUsageA, model |-> <<"gpt-5.1">>]]

GoodSettings ==
  { GoodUsageSettings,
    [kind |-> "object", obj |-> [tokenUsage |-> GoodUsageB]] }

SkipSettings ==
  { [kind |-> "missing"],
    [kind |-> "object", obj |-> [model |-> <<"gpt-5.1">>]],
    [kind |-> "object", obj |-> [tokenUsage |-> [type |-> "dict", val |-> << >>],
                                 model |-> <<"gpt-5.1">>]],
    [kind |-> "object", obj |-> [tokenUsage |-> [type |-> "null"]]],
    [kind |-> "object", obj |-> [tokenUsage |-> [type |-> "number", num |-> 0],
                                 model |-> <<"gpt-5.1">>]] }

BadSettings ==
  { [kind |-> "unreadable"], [kind |-> "malformed"], [kind |-> "nonobject"],
    [kind |-> "object", obj |-> [tokenUsage |-> [type |-> "number", num |-> 5],
                                 model |-> <<"gpt-5.1">>]] }

MaxLines == 3

Entry(timestamp) == [kind |-> "object", has_timestamp |-> TRUE, timestamp |-> timestamp]
Other(kind) == [kind |-> kind, has_timestamp |-> FALSE, timestamp |-> << >>]

\* the timestamps of transcript entries: two that parse, one that does not
EntryStamps ==
  {<<"2", "0", "2", "6", "-", "0", "1", "-", "0", "2", "T", "0", "3", ":", "0", "4", ":", "0", "5", "Z">>,
   <<"2", "0", "2", "4", "-", "0", "2", "-", "2", "9", "T", "2", "3", ":", "5", "9", ":", "5", "9", "Z">>,
   <<"y", "e", "s", "t", "e", "r", "d", "a", "y">>}

Lines ==
  {Entry(t) : t \in EntryStamps}
  \cup {Other(k) : k \in {"blank", "malformed", "scalar", "text", "object", "undecodable"}}

GoodTranscript ==
  [kind |-> "lines",
   lines |-> <<Entry(<<"2", "0", "2", "6", "-", "0", "1", "-", "0", "2", "T", "0", "3", ":", "0", "4", ":", "0", "5", "Z">>),
               Other("malformed"), Other("blank")>>]

RECURSIVE SeqsUpTo(_, _)
SeqsUpTo(S, n) ==
  IF n = 0 THEN {<< >>}
  ELSE {<< >>} \cup {<<x>> \o t : x \in S, t \in SeqsUpTo(S, n - 1)}

Transcripts ==
  {[kind |-> "missing"], [kind |-> "unreadable"]}
  \cup {[kind |-> "lines", lines |-> l] : l \in SeqsUpTo(Lines, MaxLines)}

\* DROID_RECEIPT_FORMAT: unset, or set to a format in small, capital or
\* mixed letters, to a value that names none, or to the empty string
Envs ==
  {[set |-> FALSE, val |-> << >>]} \cup
  {[set |-> TRUE, val |-> v] :
     v \in {<<"h", "t", "m", "l">>, <<"s", "v", "g">>, <<"b", "o", "t", "h">>,
            <<"H", "T", "M", "L">>, <<"S", "V", "G">>, <<"B", "o", "T", "h">>,
            <<"p", "d", "f">>, <<"h", "t", "m">>, << >>}}

PlainSessionIds == {<<"a">>, <<"b">>}
SessionIds ==
  PlainSessionIds \cup {<<".", "/", "a">>, <<"/", "tmp", "/", "a">>, <<"x", "/", "a">>,
                        <<".", ".", "/", "a">>}

Hook(script, stdin, sid, settings, transcript, env, ro) ==
  [script |-> script, stdin |-> stdin, session_id |-> sid, settings |-> settings,
   transcript |-> transcript, env |-> env, read_only |-> ro]

DefaultEnv == [set |-> FALSE, val |-> << >>]

\* every kind of input of one run, varied around a run that succeeds
HookInputs ==
  {Hook("hooks", "object", sid, st, GoodTranscript, env, ro) :
     sid \in SessionIds, st \in GoodSettings, env \in Envs, ro \in BOOLEAN}
  \cup {Hook("plugin", "object", sid, st, GoodTranscript, DefaultEnv, ro) :
     sid \in SessionIds, st \in GoodSettings, ro \in BOOLEAN}
  \cup {Hook(sc, stdin, <<"a">>, [kind |-> "missing"], GoodTranscript, DefaultEnv, FALSE) :
     sc \in {"hooks", "plugin"}, stdin \in {"invalid", "nonobject"}}
  \cup {Hook(sc, "object", <<"a">>, st, GoodTranscript, env, FALSE) :
     sc \in {"hooks", "plugin"}, st \in SkipSettings \cup BadSettings,
     env \in {DefaultEnv, [set |-> TRUE, val |-> <<"b", "o", "t", "h">>]}}
  \cup {Hook(sc, "object", <<"a">>, GoodUsageSettings, tr, DefaultEnv, FALSE) :
     sc \in {"hooks", "plugin"}, tr \in Transcripts}

\* the inputs of runs that race: sessions with data, documents to write
RacingInputs ==
  {Hook("hooks", "object", sid, st, GoodTranscript, env, FALSE) :
     sid \in PlainSessionIds \cup {<<".", "/", "a">>}, st \in GoodSettings,
     env \in {DefaultEnv, [set |-> TRUE, val |-> <<"b", "o", "t", "h">>]}}
  \cup {Hook("plugin", "object", sid, st, GoodTranscript, DefaultEnv, FALSE) :
     sid \in PlainSessionIds, st \in GoodSettings}

IdleRun ==
  [pc |-> "idle", hook |-> Hook("hooks", "invalid", << >>, [kind |-> "missing"],
                                [kind |-> "missing"], DefaultEnv, FALSE),
   session_data |-> NoData, pending |-> << >>, doc |-> NoDoc, path |-> << >>,
   exit_code |-> -1, stderr |-> << >>, stdout |-> << >>,
   wrote |-> {}, mkdir |-> << >>, made_dir |-> FALSE]

StartRun(hook) == [IdleRun EXCEPT !.pc = "start", !.hook = hook]

\* the directories every file system starts with
BaseDirs == {<< >>, <<"home">>, <<"tmp">>}

OldReceipt == <<[by |-> 0, format |-> "html", part |-> "head"],
                [by |-> 0, format |-> "html", part |-> "$0.00"]>>

\* earlier receipts of session "a", one per format
OldSvgReceipt == <<[by |-> 0, format |-> "svg", part |-> "head"],
                   [by |-> 0, format |-> "svg", part |-> "$0.00"]>>

OldReceipts ==
  [q \in {receipt_path(<<"a">>, "html"), receipt_path(<<"a">>, "svg")} |->
     IF q = receipt_path(<<"a">>, "html") THEN Whole(OldReceipt, 13379)
     ELSE Whole(OldSvgReceipt, 3916)]

VARIABLES session_data, html, svg, plugin_svg, runs, dirs, files,
          text_in, text_out, fmt_in, fmt_out

vars == <<session_data, html, svg, plugin_svg, runs, dirs, files,
          text_in, text_out, fmt_in, fmt_out>>

pricing_vars == <<session_data, html, svg, plugin_svg>>
run_vars == <<runs, dirs, files>>
text_vars == <<text_in, text_out>>
fmt_vars == <<fmt_in, fmt_out>>

(***************************************************************************)
(* The steps of main.                                                      *)
(***************************************************************************)
\* json.load(sys.stdin) up to the session_data dict: stdin, the settings
\* file and the transcript are read; nothing is written
LoadSession(p) ==
  /\ runs[p].pc = "start"
  /\ LET r    == runs[p]
         next == pc_after_load(r.hook)
     IN  runs' = [runs EXCEPT ![p] =
           IF next = "error" THEN handle_exception(r, load_message(r.hook))
           ELSE IF next = "skip" THEN exit_run(r, load_message(r.hook))
           ELSE [r EXCEPT !.pc = "mkdir",
                          !.mkdir = <<[path |-> RECEIPTS_DIR, parents |-> TRUE]>>,
                          !.session_data =
                             IF r.hook.settings.kind = "object"
                             THEN build_session_data(r.hook) ELSE NoData]]
  /\ UNCHANGED <<dirs, files, pricing_vars, text_vars, fmt_vars>>

\* os.mkdir(path): the outcome of the one system call
os_mkdir(path, tree, read_only) ==
  IF path \in tree THEN "FileExistsError"
  ELSE IF Parent(path) \notin tree THEN "FileNotFoundError"
  ELSE IF read_only THEN "PermissionError"
  ELSE "made"

\* Path.mkdir after the os.mkdir of a call: "raise" when a parent is
\* missing and is not to be made, and on every other error but that of a
\* directory that is there (exist_ok, is_dir)
mkdir_raises(call, outcome) ==
  \/ outcome = "FileNotFoundError" /\ ~(call.parents /\ call.path # << >>)
  \/ outcome = "PermissionError"

\* the calls of Path.mkdir that are open after the os.mkdir of the innermost,
\* which is first: a made or existing directory ends the call; a missing
\* parent has the parent made with its parents and the directory tried
\* again without
mkdir_calls(calls, outcome) ==
  IF outcome = "FileNotFoundError"
  THEN <<[path |-> Parent(calls[1].path), parents |-> TRUE],
         [path |-> calls[1].path, parents |-> FALSE]>> \o Tail(calls)
  ELSE Tail(calls)

\* RECEIPTS_DIR.mkdir(parents=True, exist_ok=True), one os.mkdir a step;
\* when the last call returns the format is read
MakeReceiptsDir(p) ==
  /\ runs[p].pc = "mkdir"
  /\ LET r       == runs[p]
         outcome == os_mkdir(r.mkdir[1].path, dirs, r.hook.read_only)
         calls   == mkdir_calls(r.mkdir, outcome)
     IN  /\ dirs' = IF outcome = "made" THEN dirs \cup {r.mkdir[1].path} ELSE dirs
         /\ runs' = [runs EXCEPT ![p] =
              IF mkdir_raises(r.mkdir[1], outcome) THEN handle_exception(r, outcome)
              ELSE IF calls = << >>
              THEN [r EXCEPT !.pc = "render", !.mkdir = << >>,
                             !.made_dir = @ \/ outcome = "made",
                             !.pending = formats_to_emit(r.hook.script, r.hook.env)]
              ELSE [r EXCEPT !.mkdir = calls, !.made_dir = @ \/ outcome = "made"]]
  /\ UNCHANGED <<files, pricing_vars, text_vars, fmt_vars>>

\* the kernel's walk along the directories of a path, from directory cur:
\* ".." is the parent (of the root, the root), a name is a directory of the
\* tree or the walk fails (ENOENT)
RECURSIVE path_walk(_, _, _)
path_walk(cur, parts, tree) ==
  IF parts = << >> THEN [found |-> TRUE, dir |-> cur]
  ELSE IF parts[1] = ".." THEN path_walk(Parent(cur), Tail(parts), tree)
  ELSE IF Append(cur, parts[1]) \in tree
  THEN path_walk(Append(cur, parts[1]), Tail(parts), tree)
  ELSE [found |-> FALSE, dir |-> << >>]

\* the file an open of path names: its last component in the directory
\* the walk ends in
open_file(path, tree) ==
  Append(path_walk(<< >>, Parent(path), tree).dir, path[Len(path)])

\* open(path, "w"): the outcome of the system call. The directories are
\* looked up before any permission is checked; read_only stands for a
\* tree in which no directory and no file can be written (EACCES)
os_open(path, tree, read_only) ==
  IF ~path_walk(<< >>, Parent(path), tree).found THEN "FileNotFoundError"
  ELSE IF read_only THEN "PermissionError"
  ELSE "opened"

\* mutant: the receipt file is opened before its document is rendered
Render_after_open(p) ==
  /\ runs[p].pc = "render"
  /\ LET r == runs[p]
     IN  IF r.pending = << >>
         THEN runs' = [runs EXCEPT ![p] = exit_run(r, "")] /\ files' = files
         ELSE \E doc \in {render(r.hook.script, r.pending[1], r.session_data)},
                 path \in {receipt_path(r.session_data.session_id, r.pending[1])} :
                /\ files' = IF os_open(path, dirs, r.hook.read_only) # "opened" THEN files
                            ELSE [q \in DOMAIN files \cup {open_file(path, dirs)} |->
                                    IF q = open_file(path, dirs) THEN << >> ELSE files[q]]
                /\ runs' = [runs EXCEPT ![p] =
                     IF doc.exc # "" THEN handle_exception(r, doc.exc)
                     ELSE [r EXCEPT !.pc = "open", !.doc = doc, !.path = path]]
  /\ UNCHANGED <<dirs, pricing_vars, text_vars, fmt_vars>>

\* generate_html / generate_svg for the next document, or the end of main
Render(p) ==
  /\ runs[p].pc = "render"
  /\ LET r == runs[p]
     IN  IF r.pending = << >>
         THEN runs' = [runs EXCEPT ![p] = exit_run(r, "")]
         ELSE \E doc \in {render(r.hook.script, r.pending[1], r.session_data)} :
                runs' = [runs EXCEPT ![p] =
                  IF doc.exc # "" THEN handle_exception(r, doc.exc)
                  ELSE [r EXCEPT !.pc = "open", !.doc = doc,
                                 !.path = receipt_path(r.session_data.session_id,
                                                       r.pending[1])]]
  /\ UNCHANGED <<dirs, files, pricing_vars, text_vars, fmt_vars>>

\* open(path, "w"): the file is created or cut to length 0
OpenReceipt(p) ==
  /\ runs[p].pc = "open"
  /\ LET r == runs[p]
         outcome == os_open(r.path, dirs, r.hook.read_only)
         file    == open_file(r.path, dirs)
     IN  IF outcome # "opened"
         THEN /\ runs' = [runs EXCEPT ![p] = handle_exception(r, outcome)]
              /\ files' = files
         ELSE /\ runs' = [runs EXCEPT ![p] =
                   [r EXCEPT !.pc = "write", !.wrote = @ \cup {file}]]
              /\ files' = [q \in DOMAIN files \cup {file} |->
                             IF q = file THEN << >> ELSE files[q]]
  /\ UNCHANGED <<dirs, pricing_vars, text_vars, fmt_vars>>

\* f.write(content) to the file opened, the close, and the "receipt saved"
\* line on stdout
WriteReceipt(p) ==
  /\ runs[p].pc = "write"
  /\ LET r == runs[p]
     IN  /\ files' = [files EXCEPT ![open_file(r.path, dirs)] =
                        Overlay(@, Whole(Chunks(p, r.pending[1], r.doc), r.doc.size))]
         /\ runs' = [runs EXCEPT ![p] =
              [r EXCEPT !.pc = "render", !.pending = Tail(@),
                        !.stdout = Append(@, r.pending[1])]]
  /\ UNCHANGED <<dirs, pricing_vars, text_vars, fmt_vars>>

RunStep(p) ==
  \/ LoadSession(p)
  \/ MakeReceiptsDir(p)
  \/ Render(p)
  \/ OpenReceipt(p)
  \/ WriteReceipt(p)

\* the receipts directory may be there already, with or without the earlier
\* receipts of session "a"; the runs that vary the transcript start with the
\* directory there and empty
InitFiles(hook) ==
  \/ hook.transcript = GoodTranscript /\ dirs = BaseDirs /\ files = << >>
  \/ dirs = BaseDirs \cup Prefixes(RECEIPTS_DIR) /\ files = << >>
  \/ /\ hook.transcript = GoodTranscript
     /\ dirs = BaseDirs \cup Prefixes(RECEIPTS_DIR)
     /\ files = OldReceipts

TextIdle == text_in = << >> /\ text_out = << >>
FormatIdle == fmt_in = << >> /\ fmt_out = << >>

PricingIdle ==
  /\ session_data = [model |-> << >>, tokens |-> << >>]
  /\ html = NoDoc
  /\ svg = NoDoc
  /\ plugin_svg = NoDoc

\* one run of the hook, on every kind of input
Init ==
  /\ PricingIdle /\ TextIdle /\ FormatIdle
  /\ \E h \in HookInputs :
       /\ runs = [p \in Procs |-> IF p = 1 THEN StartRun(h) ELSE IdleRun]
       /\ InitFiles(h)

Next == \E p \in Procs : RunStep(p)

Spec == Init /\ [][Next]_vars

\* runs of the hook racing on one file system
RacingInit ==
  /\ PricingIdle /\ TextIdle /\ FormatIdle
  /\ dirs = BaseDirs /\ files = << >>
  /\ \E hs \in [Procs -> RacingInputs] : runs = [p \in Procs |-> StartRun(hs[p])]

RacingSpec == RacingInit /\ [][Next]_vars

PricingInit ==
  /\ \E m \in ModelIds, keys \in {TokenKeys, {"inputTokens", "outputTokens"}} :
       session_data = [model |-> m, tokens |-> [k \in keys |-> 0]]
  /\ html = generate_html(session_data)
  /\ svg = generate_svg(session_data)
  /\ plugin_svg = plugin_generate_svg(session_data)
  /\ runs = [p \in Procs |-> IdleRun]
  /\ dirs = BaseDirs /\ files = << >>
  /\ TextIdle /\ FormatIdle

\* the renderers are applied to the record with one raw count raised
IncreaseTokens(k) ==
  /\ k \in DOMAIN session_data.tokens
  /\ NextCount(session_data.tokens[k]) \in TokenCounts
  /\ session_data' = [session_data EXCEPT !.tokens[k] = NextCount(@)]
  /\ html' = generate_html(session_data')
  /\ svg' = generate_svg(session_data')
  /\ plugin_svg' = plugin_generate_svg(session_data')
  /\ UNCHANGED <<run_vars, text_vars, fmt_vars>>

PricingNext == \E k \in TokenKeys : IncreaseTokens(k)

PricingSpec == PricingInit /\ [][PricingNext]_vars

(***************************************************************************)
(* The text fields on their own: the renderers applied to session data in  *)
(* which one field (the session id of the hook input, the directory name,  *)
(* the model of the settings, the end time of the transcript, the active   *)
(* time of the settings) is made longer piece by piece.                    *)
(***************************************************************************)
MaxAppend == 3

TextFields == {"session_id", "location", "model", "end_time"}

BaseText ==
  [session_id     |-> <<"3", "f", "2", "a", "9", "c", "1", "e", "-", "0", "b", "7", "d">>,
   location       |-> <<"p", "r", "o", "j">>,
   model          |-> <<"g", "p", "t", "-", "5", ".", "1">>,
   end_time       |-> <<"2", "0", "2", "6", "-", "0", "1", "-", "0", "2", "T", "0", "3", ":", "0", "4", ":", "0", "5", "Z">>,
   active_time_ms |-> 0]

\* timestamps that datetime.fromisoformat accepts (the last three: a year
\* below 1000, a date without separators, a week date), and ones it rejects
GoodStamps ==
  {<<"2", "0", "2", "6", "-", "0", "1", "-", "0", "2", "T", "0", "3", ":", "0", "4", ":", "0", "5", "Z">>,
   <<"2", "0", "2", "6", "-", "0", "1", "-", "0", "2", " ", "0", "3", ":", "0", "4", ":", "0", "5", ".", "1", "2", "3", "4", "5", "6">>,
   <<"2", "0", "2", "6", "-", "0", "1", "-", "0", "2">>,
   <<"2", "0", "2", "6", "-", "0", "1", "-", "0", "2", "T", "0", "3", ":", "0", "4", ":", "0", "5", "+", "0", "5", ":", "3", "0">>,
   <<"2", "0", "2", "4", "-", "0", "2", "-", "2", "9", "T", "2", "3", ":", "5", "9", ":", "5", "9", "Z">>,
   <<"2", "0", "2", "6", "-", "1", "0", "-", "2", "9", "T", "2", "2", ":", "0", "0", ":", "0", "0", ".", "2", "5", "0", "0", "0", "0">>,
   <<"2", "0", "2", "6", "-", "0", "1", "-", "0", "2", "T", "0", "3", ":", "0", "4">>,
   <<"2", "0", "2", "6", "-", "0", "1", "-", "0", "2", "T", "0", "3">>,
   <<"0", "9", "9", "9", "-", "0", "1", "-", "0", "1", "T", "0", "0", ":", "0", "0", ":", "0", "0">>,
   <<"2", "0", "2", "6", "0", "1", "0", "2">>,
   <<"2", "0", "2", "6", "-", "W", "0", "1", "-", "1">>}
BadStamps ==
  {<< >>,
   <<"2", "0", "2", "6", "-", "0", "2", "-", "3", "0", "T", "0", "3", ":", "0", "4", ":", "0", "5">>,
   <<"2", "0", "2", "6", "-", "0", "1", "-", "0", "2", "T", "2", "4", ":", "0", "0", ":", "0", "0">>,
   <<"2", "0", "2", "6", "-", "1", "-", "2", "T", "0", "3", ":", "0", "4", ":", "0", "5">>,
   <<"2", "0", "2", "6", "-", "0", "1", "-", "0", "2", "T", "0", "3", ":", "0", "4", ":", "6", "0">>,
   <<"2", "0", "2", "3", "-", "0", "2", "-", "2", "9", "T", "0", "0", ":", "0", "0", ":", "0", "0">>,
   <<"2", "0", "2", "6", "-", "1", "3", "-", "0", "2", "T", "0", "3", ":", "0", "4", ":", "0", "5">>,
   <<"y", "e", "s", "t", "e", "r", "d", "a", "y">>}

BaseValues(f) ==
  CASE f = "session_id" -> {<< >>, <<"z", "z">>, <<"3", "f", "2", "a", "9", "c", "1", "e">>}
    [] f = "location" -> {<<"p", "r", "o", "j">>, <<"a", "a", "a", "a", "a", "a", "a", "a", "a", "a", "a", "a", "a", "a", "a", "a", "a", "a", "a", "a", "a", "a", "a", "a", "a", "a", "a", "a", "a">>}
    [] f = "model" -> {<<"g", "p", "t", "-", "5", ".", "1">>, <<"g", "l", "m", "-">>, <<"c", "u", "s", "t", "o", "m", ":", "m">>}
    [] f = "end_time" -> GoodStamps \cup BadStamps
    [] f = "active_time_ms" -> {0, 45000, 125000, 3725000, 59999, 3599999}

Markup == {<<"&">>, <<"<">>, <<">">>, <<"\"">>, <<"'">>}

\* the pieces a field is made longer by
Pieces(f) ==
  CASE f = "session_id" -> {<<"a">>, <<"9">>, <<"g">>, <<"F">>, <<"-">>, <<"<">>, <<"&">>}
    [] f = "location" -> Markup \cup {<<"&", "a", "m", "p", ";">>, <<"&", "l", "t", ";">>, <<"&", "#", "0", "3", "9", ";">>, <<"&", "a", "p", "o", "s", ";">>, <<"x">>}
    [] f = "model" -> {<<"<">>, <<"&">>, <<"'">>, <<"5">>, <<"x">>}
    [] f = "end_time" -> {<<"<">>, <<"&">>, <<"'">>, <<"0">>, <<"x">>}

TimeSteps == {999, 1000, 60000, 3600000}

render_text(sd) ==
  [html |-> html_text(sd), svg |-> svg_text(sd), plugin |-> plugin_svg_text(sd)]

AppendText(f, piece) ==
  /\ text_in.field = f
  /\ text_in.appended < MaxAppend
  /\ text_in' = [text_in EXCEPT !.appended = @ + 1, !.sd[f] = @ \o piece]
  /\ text_out' = render_text(text_in'.sd)
  /\ UNCHANGED <<pricing_vars, run_vars, fmt_vars>>

AddTime(ms) ==
  /\ text_in.field = "active_time_ms"
  /\ text_in.appended < MaxAppend
  /\ text_in' = [text_in EXCEPT !.appended = @ + 1, !.sd.active_time_ms = @ + ms]
  /\ text_out' = render_text(text_in'.sd)
  /\ UNCHANGED <<pricing_vars, run_vars, fmt_vars>>

TextInit ==
  /\ \E f \in TextFields \cup {"active_time_ms"} : \E b \in BaseValues(f) :
       text_in = [field |-> f, appended |-> 0, sd |-> [BaseText EXCEPT ![f] = b]]
  /\ text_out = render_text(text_in.sd)
  /\ PricingIdle /\ FormatIdle
  /\ runs = [p \in Procs |-> IdleRun]
  /\ dirs = BaseDirs /\ files = << >>

TextNext ==
  \/ \E f \in TextFields : \E piece \in Pieces(f) : AppendText(f, piece)
  \/ \E ms \in TimeSteps : AddTime(ms)

TextSpec == TextInit /\ [][TextNext]_vars

(***************************************************************************)
(* The quantity column on its own: format_tokens applied to the billed     *)
(* amount raw count * model multiplier, as the renderers compute it, for   *)
(* counts of every magnitude.                                              *)
(***************************************************************************)
MaxSteps == 3
MaxCount == 200000000

BaseCounts ==
  {0, 1, 999, 1000, 1050, 1250, 1500, 8333, 99995, 999999, 1000000, 2300000}

\* one model per multiplier: 1.0 (not in the table), 0.12, 0.25, 0.4, 0.5,
\* 0.7, 1.2, 6
FormatModels ==
  { <<"unknown">>, <<"minimax-m2.5">>, <<"glm-5">>, <<"claude-haiku-4-5-20251001">>,
    <<"gpt-5.1">>, <<"gpt-5.2">>, <<"claude-sonnet-4-5-20250929">>,
    <<"claude-opus-4-6-fast">> }

\* the billed amount of a raw count, and the quantity shown for it
billed_of(raw, model) == html_billed(raw, get_model_multiplier(model))

format_in(raw, model, steps) ==
  [raw |-> raw, model |-> model, steps |-> steps, n |-> billed_of(raw, model)]

TimesTen ==
  /\ fmt_in.steps < MaxSteps /\ fmt_in.raw <= MaxCount \div 10
  /\ fmt_in' = format_in(fmt_in.raw * 10, fmt_in.model, fmt_in.steps + 1)
  /\ fmt_out' = format_tokens(fmt_in'.n)
  /\ UNCHANGED <<pricing_vars, run_vars, text_vars>>

PlusOne ==
  /\ fmt_in.steps < MaxSteps /\ fmt_in.raw < MaxCount
  /\ fmt_in' = format_in(fmt_in.raw + 1, fmt_in.model, fmt_in.steps + 1)
  /\ fmt_out' = format_tokens(fmt_in'.n)
  /\ UNCHANGED <<pricing_vars, run_vars, text_vars>>

FormatInit ==
  /\ \E raw \in BaseCounts, model \in FormatModels : fmt_in = format_in(raw, model, 0)
  /\ fmt_out = format_tokens(fmt_in.n)
  /\ PricingIdle /\ TextIdle
  /\ runs = [p \in Procs |-> IdleRun]
  /\ dirs = BaseDirs /\ files = << >>

FormatNext == TimesTen \/ PlusOne

FormatSpec == FormatInit /\ [][FormatNext]_vars

(***************************************************************************)
(* Claims about the pricing calculator, checked under PricingSpec.         *)
(***************************************************************************)
RawCount(key) == TokensGet(session_data.tokens, key)

\* the multiplier in hundredths (12 for 0.12, 200 for the int 2)
Hundredths(x) == FRoundScaled(x, 100)

\* billed amounts as the claim states them, for the locals v of a renderer:
\* the float products, and the same figures in exact integer arithmetic
\* (hundredths of a token; thousandths for cache reads)
BilledAsClaimed(v) ==
  LET mult == get_model_multiplier(session_data.model)
  IN  /\ v.input_factory = FMul(FOfInt(RawCount("inputTokens")), mult)
      /\ v.output_factory = FMul(FOfInt(RawCount("outputTokens")), mult)
      /\ v.cache_write_factory = FMul(FOfInt(RawCount("cacheCreationTokens")), mult)
      /\ v.cache_read_factory =
           FMul(FMul(FOfInt(RawCount("cacheReadTokens")), mult), FLit(1, 10))
      /\ FRoundScaled(v.input_factory, 100) = RawCount("inputTokens") * Hundredths(mult)
      /\ FRoundScaled(v.output_factory, 100) = RawCount("outputTokens") * Hundredths(mult)
      /\ FRoundScaled(v.cache_write_factory, 100) =
           RawCount("cacheCreationTokens") * Hundredths(mult)
      /\ FRoundScaled(v.cache_read_factory, 1000) =
           RawCount("cacheReadTokens") * Hundredths(mult)

\* C1: in both renderers the billed tokens of input, output and cache write
\* are raw count x model multiplier, and of cache read raw count x model
\* multiplier x 0.1; the discount touches the cache-read category only.
C1_BilledTokens == BilledAsClaimed(html.locals) /\ BilledAsClaimed(svg.locals)

\* a discounted model with all four categories in use
C1_Witness ==
  /\ session_data.model = <<"minimax-m2.5">>
  /\ \A k \in TokenKeys : RawCount(k) > 0
  /\ FRoundScaled(html.locals.cache_write_factory, 100) =
       12 * RawCount("cacheCreationTokens")
  /\ FRoundScaled(svg.locals.cache_read_factory, 1000) =
       12 * RawCount("cacheReadTokens")

SumOfCosts(v) ==
  FAdd(FAdd(FAdd(v.input_cost, v.output_cost), v.cache_write_cost), v.cache_read_cost)

\* C2: the total generate_html displays is the sum of the four per-category
\* costs, each of them billed tokens / 1,000,000 x the base price (1.0).
C2_TotalIsSumOfCosts ==
  /\ \A v \in {html.locals, svg.locals} :
       /\ v.input_cost = FMul(FDivInt(v.input_factory, 1000000), FLit(1, 1))
       /\ v.output_cost = FMul(FDivInt(v.output_factory, 1000000), FLit(1, 1))
       /\ v.cache_write_cost = FMul(FDivInt(v.cache_write_factory, 1000000), FLit(1, 1))
       /\ v.cache_read_cost = FMul(FDivInt(v.cache_read_factory, 1000000), FLit(1, 1))
  /\ html.total = format_currency(SumOfCosts(html.locals))

Cents(x) == FRoundScaled(x, 100)

\* suf is what follows the last ":" of m (all of m when it holds none)
AfterLastColon(m, suf) ==
  /\ \A i \in 1..Len(suf) : suf[i] # ":"
  /\ \/ m = suf
     \/ \E i \in 1..Len(m) : m[i] = ":" /\ SubSeq(m, i + 1, Len(m)) = suf

\* C3: get_model_multiplier(m) is the table entry of the substring of m after
\* its last ":", and 1.0 when that substring is no key of the table.
C3_MultiplierLookup ==
  \A i \in 1..(Len(session_data.model) + 1) :
     LET suf == SubSeq(session_data.model, i, Len(session_data.model))
     IN  AfterLastColon(session_data.model, suf) =>
           /\ Join(suf) \in DOMAIN MODEL_MULTIPLIERS =>
                html.locals.model_multiplier = MODEL_MULTIPLIERS[Join(suf)]
           /\ Join(suf) \notin DOMAIN MODEL_MULTIPLIERS =>
                html.locals.model_multiplier = FLit(1, 1)

\* the namespaced identifier x:y:gpt-5.1 priced as gpt-5.1
C3_Witness ==
  /\ session_data.model = <<"x", ":", "y", ":", "gpt-5.1">>
  /\ html.locals.model_multiplier = MODEL_MULTIPLIERS["gpt-5.1"]
  /\ html.locals.model_multiplier # FLit(1, 1)

\* one raw count raised, the model and the other three counts as they were
OneCountRaised ==
  /\ session_data'.model = session_data.model
  /\ DOMAIN session_data'.tokens = DOMAIN session_data.tokens
  /\ \E k \in DOMAIN session_data.tokens :
       /\ session_data'.tokens[k] > session_data.tokens[k]
       /\ \A j \in DOMAIN session_data.tokens \ {k} :
            session_data'.tokens[j] = session_data.tokens[j]

\* C4: total cost and total billed tokens are >= 0, and raising one raw count
\* with the model and the other counts fixed lowers neither of them.
C4_Monotone ==
  [][ /\ FLe(FZero, html.locals.total_cost) /\ FLe(FZero, html.locals.factory_tokens)
      /\ OneCountRaised =>
           /\ FLe(html.locals.factory_tokens, html'.locals.factory_tokens)
           /\ FLe(html.locals.total_cost, html'.locals.total_cost)
           /\ Cents(html.locals.total_cost) <= Cents(html'.locals.total_cost)
           /\ FLe(svg.locals.total_cost_val, svg'.locals.total_cost_val) ]_vars

\* a count has been raised twice and the total is positive
C4_Witness ==
  /\ RawCount("outputTokens") > TokenUnit
  /\ FLt(FZero, html.locals.total_cost)
  /\ FLt(FZero, html.locals.factory_tokens)

\* cache reads billed like input or output tokens
UndiscountedCacheRead ==
  FMul(FOfInt(RawCount("cacheReadTokens")), get_model_multiplier(session_data.model))

\* C5 as stated: the cache-read billed tokens are strictly less than the
\* undiscounted amount, for every raw cache-read count and every model.
C5_StrictlyLessAlways ==
  FLt(FLit(1, 10), FLit(1, 1)) =>
    FLt(html.locals.cache_read_factory, UndiscountedCacheRead)

\* C5 as amended: strictly less for every raw cache-read count above 0; at a
\* count of 0 both amounts are 0.
C5_StrictlyLessWhenPositive ==
  FLt(FLit(1, 10), FLit(1, 1)) =>
    \A v \in {html.locals, svg.locals} :
       /\ RawCount("cacheReadTokens") > 0 =>
            FLt(v.cache_read_factory, UndiscountedCacheRead)
       /\ RawCount("cacheReadTokens") = 0 =>
            v.cache_read_factory = FZero /\ UndiscountedCacheRead = FZero

C5_Witness ==
  /\ RawCount("cacheReadTokens") > 0
  /\ FLt(svg.locals.cache_read_factory, UndiscountedCacheRead)
  /\ FLt(html.locals.cache_read_factory, UndiscountedCacheRead)

\* the scenario of C6: a model of multiplier 0.5
IsScenario ==
  /\ get_model_multiplier(session_data.model) = FLit(5, 10)
  /\ RawCount("inputTokens") = 100000
  /\ RawCount("outputTokens") = 50000
  /\ RawCount("cacheCreationTokens") = 0
  /\ RawCount("cacheReadTokens") = 200000

\* C6: input 100000, output 50000, cache write 0, cache read 200000 at
\* multiplier 0.5: billed 50000 + 25000 + 0 + 10000 = 85000, TOTAL "$0.09".
C6_EndToEnd ==
  IsScenario =>
    /\ html.locals.input_factory = FOfInt(50000)
    /\ html.locals.output_factory = FOfInt(25000)
    /\ html.locals.cache_write_factory = FZero
    /\ html.locals.cache_read_factory = FOfInt(10000)
    /\ html.locals.factory_tokens = FOfInt(85000)
    /\ html.total = "$0.09"

C6_Witness ==
  /\ IsScenario
  /\ session_data.model = <<"gpt-5.1">>
  /\ html.total = "$0.09"
  /\ html.exc = ""
(***************************************************************************)
(* Claims about main, checked under Spec (one run, every kind of input)    *)
(* and under RacingSpec (runs racing on one file system).                  *)
(***************************************************************************)
Failed(r) == r.stdout # formats_to_emit(r.hook.script, r.hook.env)

\* C7: main always ends with exit status 0, whatever the input and whatever
\* fails on the way, and a run that did not write all its documents has left
\* diagnostic text on stderr; no status is set before the end.
C7_ExitZero ==
  \A p \in Procs :
     /\ runs[p].exit_code = (IF runs[p].pc = "done" THEN 0 ELSE -1)
     /\ runs[p].pc = "done" /\ Failed(runs[p]) => runs[p].stderr # << >>

\* a run whose open() was refused has ended with status 0 and a diagnostic
C7_Witness ==
  \E p \in Procs :
     /\ runs[p].pc = "done" /\ runs[p].exit_code = 0
     /\ runs[p].hook.read_only
     /\ runs[p].pending # << >>
     /\ runs[p].stderr = <<"Error generating receipt: PermissionError">>

\* the settings file is absent, or holds an object without token data
NoTokenData(hook) ==
  /\ hook.stdin = "object"
  /\ \/ hook.settings.kind = "missing"
     \/ /\ hook.settings.kind = "object"
        /\ \/ "tokenUsage" \notin DOMAIN hook.settings.obj
           \/ hook.settings.obj["tokenUsage"] = [type |-> "dict", val |-> << >>]

\* C8: with the settings file absent or without token data (tokenUsage
\* missing or empty), every step the run takes ends it with status 0, and
\* leaves every directory and every file as it was: no receipt is written.
C8_SkipWritesNothing ==
  [][ \A p \in Procs :
        NoTokenData(runs[p].hook) /\ runs'[p] # runs[p] =>
          /\ runs'[p].pc = "done" /\ runs'[p].exit_code = 0
          /\ runs'[p].wrote = {} /\ ~runs'[p].made_dir /\ runs'[p].stdout = << >>
          /\ dirs' = dirs /\ files' = files ]_vars

\* a run on settings without tokenUsage has ended; no receipts directory
C8_Witness ==
  \E p \in Procs :
     /\ NoTokenData(runs[p].hook)
     /\ runs[p].hook.settings.kind = "object"
     /\ runs[p].pc = "done" /\ runs[p].exit_code = 0
     /\ runs[p].stderr = <<"No token usage data available">>
     /\ RECEIPTS_DIR \notin dirs /\ DOMAIN files = {}

\* the documents the format setting selects, as C9 states it
ClaimedFormats(env) ==
  IF ~env.set THEN {"html"}
  ELSE CASE env.val = <<"s", "v", "g">> -> {"svg"}
         [] env.val = <<"h", "t", "m", "l">> -> {"html"}
         [] env.val = <<"b", "o", "t", "h">> -> {"html", "svg"}
         [] OTHER -> {}

\* <receipts dir>/<session_id>.<ext>
ClaimedPath(session_id, ext) == RECEIPTS_DIR \o <<Join(session_id) \o "." \o ext>>

\* a run of src/hooks on a settings file with token data, a plain session
\* identifier, a writable disk and a format setting C9 names
SelectsFormat(hook) ==
  /\ hook.script = "hooks" /\ hook.stdin = "object" /\ ~hook.read_only
  /\ hook.settings \in GoodSettings /\ hook.transcript = GoodTranscript
  /\ hook.session_id \in PlainSessionIds
  /\ ~hook.env.set
     \/ hook.env.val \in {<<"s", "v", "g">>, <<"h", "t", "m", "l">>, <<"b", "o", "t", "h">>}

\* C9: a finished run on a settings file with token data has emitted the
\* documents its format setting selects (svg: <session_id>.svg, html:
\* <session_id>.html, both: both, unset: the HTML one), each complete, in the
\* receipts directory, which it created if absent.
C9_FormatSelectsDocuments ==
  \A p \in Procs :
     runs[p].pc = "done" /\ SelectsFormat(runs[p].hook) =>
       /\ RECEIPTS_DIR \in dirs
       /\ runs[p].wrote =
            {ClaimedPath(runs[p].hook.session_id, f) : f \in ClaimedFormats(runs[p].hook.env)}
       /\ \A q \in runs[p].wrote : q \in DOMAIN files /\ files[q] # << >>

\* the document of format f of run p as a file holds it when whole
WholeReceipt(p, f) ==
  TheOne({Whole(Chunks(p, f, doc), doc.size) :
            doc \in {render(runs[p].hook.script, f, runs[p].session_data)}})

\* both runs have ended, each having written the document of format f
BothWrote(p, q, f) ==
  /\ runs[p].pc = "done" /\ runs[q].pc = "done"
  /\ f \in {runs[p].stdout[i] : i \in DOMAIN runs[p].stdout}
  /\ f \in {runs[q].stdout[i] : i \in DOMAIN runs[q].stdout}

\* C10: every file a run writes is at <receipts dir>/<session_id>.<ext>, so
\* runs with different session identifiers never write the same path, under
\* any interleaving; and when two runs use one session identifier, the
\* receipt left on disk is the whole document of one of them.
C10_DistinctSessionsDistinctPaths ==
  \A p, q \in Procs :
     /\ runs[p].hook.session_id # runs[q].hook.session_id =>
          runs[p].wrote \cap runs[q].wrote = {}
     /\ \A f \in {"html", "svg"} :
          /\ p # q /\ runs[p].hook.session_id = runs[q].hook.session_id
          /\ runs[p].hook.script = runs[q].hook.script
          /\ BothWrote(p, q, f)
          => files[receipt_path(runs[p].hook.session_id, f)]
               \in {WholeReceipt(p, f), WholeReceipt(q, f)}

(***************************************************************************)
(* Text fields.                                                            *)
(***************************************************************************)
\* what each escaped character is written as, per markup
XmlEntities ==
  {[ch |-> "&", ent |-> <<"&", "a", "m", "p", ";">>],
   [ch |-> "<", ent |-> <<"&", "l", "t", ";">>],
   [ch |-> ">", ent |-> <<"&", "g", "t", ";">>],
   [ch |-> "\"", ent |-> <<"&", "q", "u", "o", "t", ";">>],
   [ch |-> "'", ent |-> <<"&", "a", "p", "o", "s", ";">>]}

HtmlEntities ==
  {[ch |-> "&", ent |-> <<"&", "a", "m", "p", ";">>],
   [ch |-> "<", ent |-> <<"&", "l", "t", ";">>],
   [ch |-> ">", ent |-> <<"&", "g", "t", ";">>],
   [ch |-> "\"", ent |-> <<"&", "q", "u", "o", "t", ";">>],
   [ch |-> "'", ent |-> <<"&", "#", "0", "3", "9", ";">>]}

\* entity e is written in text from index i on
EntityAt(text, i, e) ==
  i + Len(e.ent) - 1 <= Len(text) /\ SubSeq(text, i, i + Len(e.ent) - 1) = e.ent

\* no markup character stands in text as itself: no <, >, " or ', and every
\* ampersand starts one of the entities
NoRawMarkup(text, entities) ==
  \A i \in 1..Len(text) :
     /\ text[i] \notin {"<", ">", "\"", "'"}
     /\ text[i] = "&" => \E e \in entities : EntityAt(text, i, e)

\* the session-data text fields the claim names, as far as a document has them
EmbeddedFields(doc) ==
  DOMAIN doc \cap {"location", "model_name", "session_short", "droid_name", "date_str"}

\* C11: every text field a renderer embeds from session data (location,
\* model display name, session id prefix, served-by label, date string)
\* holds no unescaped markup character, whatever the input.
C11_AllTextEscaped ==
  text_in # << >> =>
    /\ \A f \in EmbeddedFields(text_out.html) :
         NoRawMarkup(text_out.html[f], HtmlEntities)
    /\ \A f \in EmbeddedFields(text_out.svg) :
         NoRawMarkup(text_out.svg[f], XmlEntities)
    /\ \A f \in EmbeddedFields(text_out.plugin) :
         NoRawMarkup(text_out.plugin[f], XmlEntities)

\* the fields the renderers do escape hold no unescaped markup character
C11_EscapedFieldsClean ==
  text_in # << >> =>
    /\ \A f \in EmbeddedFields(text_out.html) \ {"date_str"} :
         NoRawMarkup(text_out.html[f], HtmlEntities)
    /\ \A f \in EmbeddedFields(text_out.svg) \ {"date_str"} :
         NoRawMarkup(text_out.svg[f], XmlEntities)

\* text with the entities read back as the characters they stand for, from
\* left to right
RECURSIVE Decode(_, _)
Decode(text, entities) ==
  IF text = << >> THEN << >>
  ELSE IF \E e \in entities : EntityAt(text, 1, e)
  THEN LET e == CHOOSE x \in entities : EntityAt(text, 1, x)
       IN  <<e.ch>> \o Decode(SubSeq(text, Len(e.ent) + 1, Len(text)), entities)
  ELSE <<text[1]>> \o Decode(Tail(text), entities)

\* each character written as its entity where it has one, as itself otherwise
RECURSIVE PerCharacter(_, _)
PerCharacter(text, entities) ==
  IF text = << >> THEN << >>
  ELSE (IF \E e \in entities : e.ch = text[1]
        THEN (CHOOSE e \in entities : e.ch = text[1]).ent
        ELSE <<text[1]>>) \o PerCharacter(Tail(text), entities)

\* the strings that are escaped before they are embedded
EscapedInputs ==
  {Take(text_in.sd.location, 30), session_short(text_in.sd.session_id),
   get_model_name(text_in.sd.model), generate_droid_name(text_in.sd.session_id)}

\* C12: decoding the entities of escape_xml(s), and of escape_html(s), gives
\* back s for every s, also when s already looks like an entity; each
\* character is escaped once (the ampersand first, so the ampersand of an
\* entity the function wrote is not escaped again).
C12_EscapeRoundTrips ==
  text_in # << >> =>
    /\ {text_out.svg[f] : f \in EmbeddedFields(text_out.svg) \ {"date_str"}}
         = {escape_xml(s) : s \in EscapedInputs}
    /\ {text_out.html[f] : f \in EmbeddedFields(text_out.html) \ {"date_str"}}
         = {escape_html(s) : s \in EscapedInputs}
    /\ \A s \in EscapedInputs :
         /\ Decode(escape_xml(s), XmlEntities) = s
         /\ Decode(escape_html(s), HtmlEntities) = s
         /\ escape_xml(s) = PerCharacter(s, XmlEntities)
         /\ escape_html(s) = PerCharacter(s, HtmlEntities)

\* a location that already looks like an entity and holds markup of its own
\* has been escaped
C12_Witness ==
  /\ text_in # << >> /\ text_in.field = "location" /\ text_in.appended = MaxAppend
  /\ \E i \in 1..Len(text_in.sd.location) :
       EntityAt(text_in.sd.location, i, [ch |-> "<", ent |-> <<"&", "l", "t", ";">>])
  /\ \E i \in 1..Len(text_in.sd.location) : text_in.sd.location[i] = "<"
  /\ \E i \in 1..Len(text_in.sd.location) : text_in.sd.location[i] = "'"
  /\ text_out.svg.location # text_in.sd.location
  /\ text_out.html.location # text_out.svg.location

(***************************************************************************)
(* Line items and layout, checked under PricingSpec.                       *)
(***************************************************************************)
\* the labels of the line items of the document a renderer returned, in
\* order; a renderer that raised returned no document
RenderedLabels(doc) ==
  IF doc.exc = "" THEN [i \in 1..Len(doc.items) |-> doc.items[i].label] ELSE << >>

ClaimedLabels ==
  <<"Input tokens", "Output tokens">>
  \o (IF RawCount("cacheCreationTokens") > 0 THEN <<"Cache write">> ELSE << >>)
  \o (IF RawCount("cacheReadTokens") > 0 THEN <<"Cache read">> ELSE << >>)

\* C13: each renderer (HTML, SVG) always renders the input and output line
\* items, a "Cache write" item iff the raw cache-write count is > 0 and a
\* "Cache read" item iff the raw cache-read count is > 0.
C13_LineItems ==
  \A doc \in {html, svg, plugin_svg} : RenderedLabels(doc) = ClaimedLabels

\* the renderers that return a document render the line items as claimed
C13_LineItemsWhereRendered ==
  \A doc \in {html, plugin_svg} : RenderedLabels(doc) = ClaimedLabels

CacheItemCount ==
  (IF RawCount("cacheCreationTokens") > 0 THEN 1 ELSE 0)
  + (IF RawCount("cacheReadTokens") > 0 THEN 1 ELSE 0)

\* a document whose cache line items stand 20 apart from the first slot
\* behind the output line, and whose total section is at base + 20 per cache
\* line item
LayoutAsClaimed(doc, first_slot, total_base) ==
  /\ doc.exc = ""
  /\ Len(doc.ys) = 2 + CacheItemCount
  /\ \A i \in 3..Len(doc.ys) : doc.ys[i] = first_slot + 20 * (i - 3)
  /\ doc.total_y = total_base + 20 * CacheItemCount

\* C14: in the SVG layout the y position advances by 20 per rendered cache
\* line item and by 0 per omitted one; a cache-read item without a
\* cache-write item takes the first slot after the output line, and the
\* total section is at a fixed base plus 20 x the number of cache items.
C14_SvgLayout ==
  /\ LayoutAsClaimed(svg, 330, 345)
  /\ LayoutAsClaimed(plugin_svg, 325, 345)

\* the plugin's renderer, which returns a document, lays it out as claimed
C14_PluginLayout == LayoutAsClaimed(plugin_svg, 325, 345)

(***************************************************************************)
(* The end time, checked under Spec.                                       *)
(***************************************************************************)
\* a run that is past reading its inputs, which were a hook input, settings
\* with token data and a transcript file it could open
HasReadTranscript(r) ==
  /\ r.pc \notin {"idle", "start"}
  /\ r.hook.stdin = "object" /\ r.hook.settings \in GoodSettings
  /\ r.hook.transcript.kind = "lines"

\* the lines that are well-formed JSON carrying a timestamp, by index
Timestamped(lines) ==
  {i \in 1..Len(lines) : lines[i].kind = "object" /\ lines[i].has_timestamp}

\* the timestamp of the last such line in file order
EndTimeAsClaimed(lines) ==
  IF Timestamped(lines) = {} THEN Now
  ELSE lines[CHOOSE i \in Timestamped(lines) :
               \A j \in Timestamped(lines) : j <= i].timestamp

\* C15: the end time of the receipt is the timestamp of the last transcript
\* line that is well-formed JSON carrying a timestamp; blank, unparsable and
\* unusable lines are skipped and none of them aborts the scan or the run,
\* wherever it stands.
C15_EndTimeFromTranscript ==
  \A p \in Procs :
     HasReadTranscript(runs[p]) =>
       /\ \A i \in 1..Len(runs[p].stderr) :
            runs[p].stderr[i] # "Error generating receipt: UnicodeDecodeError"
       /\ runs[p].session_data.end_time = EndTimeAsClaimed(runs[p].hook.transcript.lines)

\* the same for the transcripts open() can decode
C15_EndTimeFromDecodedTranscript ==
  \A p \in Procs :
     HasReadTranscript(runs[p]) /\ decodes(runs[p].hook.transcript) =>
       runs[p].session_data.end_time = EndTimeAsClaimed(runs[p].hook.transcript.lines)

(***************************************************************************)
(* The date field, checked under TextSpec.                                 *)
(***************************************************************************)
\* The end times of the model that Python's datetime.fromisoformat accepts
\* once "Z" is replaced by "+00:00", each with what strftime("%Y-%m-%d
\* %H:%M:%S") prints for it, as CPython 3.11 computes them; every other
\* end time of the model makes fromisoformat raise ValueError.
IsoParsed ==
  {[raw |-> <<"0", "9", "9", "9", "-", "0", "1", "-", "0", "1", "T", "0", "0", ":", "0", "0", ":", "0", "0">>,
    shown |-> <<"0", "9", "9", "9", "-", "0", "1", "-", "0", "1", " ", "0", "0", ":", "0", "0", ":", "0", "0">>],
   [raw |-> <<"2", "0", "2", "4", "-", "0", "2", "-", "2", "9", "T", "2", "3", ":", "5", "9", ":", "5", "9", "Z">>,
    shown |-> <<"2", "0", "2", "4", "-", "0", "2", "-", "2", "9", " ", "2", "3", ":", "5", "9", ":", "5", "9">>],
   [raw |-> <<"2", "0", "2", "6", "-", "0", "1", "-", "0", "2">>,
    shown |-> <<"2", "0", "2", "6", "-", "0", "1", "-", "0", "2", " ", "0", "0", ":", "0", "0", ":", "0", "0">>],
   [raw |-> <<"2", "0", "2", "6", "-", "0", "1", "-", "0", "2", " ", "0", "3", ":", "0", "4", ":", "0", "5", ".", "1", "2", "3", "4", "5", "6">>,
    shown |-> <<"2", "0", "2", "6", "-", "0", "1", "-", "0", "2", " ", "0", "3", ":", "0", "4", ":", "0", "5">>],
   [raw |-> <<"2", "0", "2", "6", "-", "0", "1", "-", "0", "2", " ", "0", "3", ":", "0", "4", ":", "0", "5", ".", "1", "2", "3", "4", "5", "6", "0">>,
    shown |-> <<"2", "0", "2", "6", "-", "0", "1", "-", "0", "2", " ", "0", "3", ":", "0", "4", ":", "0", "5">>],
   [raw |-> <<"2", "0", "2", "6", "-", "0", "1", "-", "0", "2", " ", "0", "3", ":", "0", "4", ":", "0", "5", ".", "1", "2", "3", "4", "5", "6", "0", "0">>,
    shown |-> <<"2", "0", "2", "6", "-", "0", "1", "-", "0", "2", " ", "0", "3", ":", "0", "4", ":", "0", "5">>],
   [raw |-> <<"2", "0", "2", "6", "-", "0", "1", "-", "0", "2", " ", "0", "3", ":", "0", "4", ":", "0", "5", ".", "1", "2", "3", "4", "5", "6", "0", "0", "0">>,
    shown |-> <<"2", "0", "2", "6", "-", "0", "1", "-", "0", "2", " ", "0", "3", ":", "0", "4", ":", "0", "5">>],
   [raw |-> <<"2", "0", "2", "6", "-", "0", "1", "-", "0", "2", " ", "0", "3", ":", "0", "4", ":", "0", "5", ".", "1", "2", "3", "4", "5", "6", "0", "0", "0", "0">>,
    shown |-> <<"2", "0", "2", "6", "-", "0", "1", "-", "0", "2", " ", "0", "3", ":", "0", "4", ":", "0", "5">>],
   [raw |-> <<"2", "0", "2", "6", "-", "0", "1", "-", "0", "2", "&", "0", "0">>,
    shown |-> <<"2", "0", "2", "6", "-", "0", "1", "-", "0", "2", " ", "0", "0", ":", "0", "0", ":", "0", "0">>],
   [raw |-> <<"2", "0", "2", "6", "-", "0", "1", "-", "0", "2", "'", "0", "0">>,
    shown |-> <<"2", "0", "2", "6", "-", "0", "1", "-", "0", "2", " ", "0", "0", ":", "0", "0", ":", "0", "0">>],
   [raw |-> <<"2", "0", "2", "6", "-", "0", "1", "-", "0", "2", "0", "0", "0">>,
    shown |-> <<"2", "0", "2", "6", "-", "0", "1", "-", "0", "2", " ", "0", "0", ":", "0", "0", ":", "0", "0">>],
   [raw |-> <<"2", "0", "2", "6", "-", "0", "1", "-", "0", "2", "<", "0", "0">>,
    shown |-> <<"2", "0", "2", "6", "-", "0", "1", "-", "0", "2", " ", "0", "0", ":", "0", "0", ":", "0", "0">>],
   [raw |-> <<"2", "0", "2", "6", "-", "0", "1", "-", "0", "2", "T", "0", "3">>,
    shown |-> <<"2", "0", "2", "6", "-", "0", "1", "-", "0", "2", " ", "0", "3", ":", "0", "0", ":", "0", "0">>],
   [raw |-> <<"2", "0", "2", "6", "-", "0", "1", "-", "0", "2", "T", "0", "3", "0", "0">>,
    shown |-> <<"2", "0", "2", "6", "-", "0", "1", "-", "0", "2", " ", "0", "3", ":", "0", "0", ":", "0", "0">>],
   [raw |-> <<"2", "0", "2", "6", "-", "0", "1", "-", "0", "2", "T", "0", "3", "0", "0", "0", "0">>,
    shown |-> <<"2", "0", "2", "6", "-", "0", "1", "-", "0", "2", " ", "0", "3", ":", "0", "0", ":", "0", "0">>],
   [raw |-> <<"2", "0", "2", "6", "-", "0", "1", "-", "0", "2", "T", "0", "3", ":", "0", "4">>,
    shown |-> <<"2", "0", "2", "6", "-", "0", "1", "-", "0", "2", " ", "0", "3", ":", "0", "4", ":", "0", "0">>],
   [raw |-> <<"2", "0", "2", "6", "-", "0", "1", "-", "0", "2", "T", "0", "3", ":", "0", "4", ":", "0", "5", "+", "0", "5", ":", "3", "0">>,
    shown |-> <<"2", "0", "2", "6", "-", "0", "1", "-", "0", "2", " ", "0", "3", ":", "0", "4", ":", "0", "5">>],
   [raw |-> <<"2", "0", "2", "6", "-", "0", "1", "-", "0", "2", "T", "0", "3", ":", "0", "4", ":", "0", "5", "Z">>,
    shown |-> <<"2", "0", "2", "6", "-", "0", "1", "-", "0", "2", " ", "0", "3", ":", "0", "4", ":", "0", "5">>],
   [raw |-> <<"2", "0", "2", "6", "-", "0", "1", "-", "0", "2", "x", "0", "0">>,
    shown |-> <<"2", "0", "2", "6", "-", "0", "1", "-", "0", "2", " ", "0", "0", ":", "0", "0", ":", "0", "0">>],
   [raw |-> <<"2", "0", "2", "6", "-", "1", "0", "-", "2", "9", "T", "2", "2", ":", "0", "0", ":", "0", "0", ".", "2", "5", "0", "0", "0", "0">>,
    shown |-> <<"2", "0", "2", "6", "-", "1", "0", "-", "2", "9", " ", "2", "2", ":", "0", "0", ":", "0", "0">>],
   [raw |-> <<"2", "0", "2", "6", "-", "1", "0", "-", "2", "9", "T", "2", "2", ":", "0", "0", ":", "0", "0", ".", "2", "5", "0", "0", "0", "0", "0">>,
    shown |-> <<"2", "0", "2", "6", "-", "1", "0", "-", "2", "9", " ", "2", "2", ":", "0", "0", ":", "0", "0">>],
   [raw |-> <<"2", "0", "2", "6", "-", "1", "0", "-", "2", "9", "T", "2", "2", ":", "0", "0", ":", "0", "0", ".", "2", "5", "0", "0", "0", "0", "0", "0">>,
    shown |-> <<"2", "0", "2", "6", "-", "1", "0", "-", "2", "9", " ", "2", "2", ":", "0", "0", ":", "0", "0">>],
   [raw |-> <<"2", "0", "2", "6", "-", "1", "0", "-", "2", "9", "T", "2", "2", ":", "0", "0", ":", "0", "0", ".", "2", "5", "0", "0", "0", "0", "0", "0", "0">>,
    shown |-> <<"2", "0", "2", "6", "-", "1", "0", "-", "2", "9", " ", "2", "2", ":", "0", "0", ":", "0", "0">>],
   [raw |-> <<"2", "0", "2", "6", "-", "1", "0", "-", "2", "9", "T", "2", "2", ":", "0", "0", ":", "0", "0", ".", "2", "5", "0", "0", "0", "0", "0", "0", "0", "0">>,
    shown |-> <<"2", "0", "2", "6", "-", "1", "0", "-", "2", "9", " ", "2", "2", ":", "0", "0", ":", "0", "0">>],
   [raw |-> <<"2", "0", "2", "6", "-", "W", "0", "1", "-", "1">>,
    shown |-> <<"2", "0", "2", "5", "-", "1", "2", "-", "2", "9", " ", "0", "0", ":", "0", "0", ":", "0", "0">>],
   [raw |-> <<"2", "0", "2", "6", "-", "W", "0", "1", "-", "1", "&", "0", "0">>,
    shown |-> <<"2", "0", "2", "5", "-", "1", "2", "-", "2", "9", " ", "0", "0", ":", "0", "0", ":", "0", "0">>],
   [raw |-> <<"2", "0", "2", "6", "-", "W", "0", "1", "-", "1", "'", "0", "0">>,
    shown |-> <<"2", "0", "2", "5", "-", "1", "2", "-", "2", "9", " ", "0", "0", ":", "0", "0", ":", "0", "0">>],
   [raw |-> <<"2", "0", "2", "6", "-", "W", "0", "1", "-", "1", "0">>,
    shown |-> <<"2", "0", "2", "5", "-", "1", "2", "-", "2", "9", " ", "1", "0", ":", "0", "0", ":", "0", "0">>],
   [raw |-> <<"2", "0", "2", "6", "-", "W", "0", "1", "-", "1", "0", "0", "0">>,
    shown |-> <<"2", "0", "2", "5", "-", "1", "2", "-", "2", "9", " ", "1", "0", ":", "0", "0", ":", "0", "0">>],
   [raw |-> <<"2", "0", "2", "6", "-", "W", "0", "1", "-", "1", "<", "0", "0">>,
    shown |-> <<"2", "0", "2", "5", "-", "1", "2", "-", "2", "9", " ", "0", "0", ":", "0", "0", ":", "0", "0">>],
   [raw |-> <<"2", "0", "2", "6", "-", "W", "0", "1", "-", "1", "x", "0", "0">>,
    shown |-> <<"2", "0", "2", "5", "-", "1", "2", "-", "2", "9", " ", "0", "0", ":", "0", "0", ":", "0", "0">>],
   [raw |-> <<"2", "0", "2", "6", "0", "1", "0", "2">>,
    shown |-> <<"2", "0", "2", "6", "-", "0", "1", "-", "0", "2", " ", "0", "0", ":", "0", "0", ":", "0", "0">>],
   [raw |-> <<"2", "0", "2", "6", "0", "1", "0", "2", "&", "0", "0">>,
    shown |-> <<"2", "0", "2", "6", "-", "0", "1", "-", "0", "2", " ", "0", "0", ":", "0", "0", ":", "0", "0">>],
   [raw |-> <<"2", "0", "2", "6", "0", "1", "0", "2", "'", "0", "0">>,
    shown |-> <<"2", "0", "2", "6", "-", "0", "1", "-", "0", "2", " ", "0", "0", ":", "0", "0", ":", "0", "0">>],
   [raw |-> <<"2", "0", "2", "6", "0", "1", "0", "2", "0", "0", "0">>,
    shown |-> <<"2", "0", "2", "6", "-", "0", "1", "-", "0", "2", " ", "0", "0", ":", "0", "0", ":", "0", "0">>],
   [raw |-> <<"2", "0", "2", "6", "0", "1", "0", "2", "<", "0", "0">>,
    shown |-> <<"2", "0", "2", "6", "-", "0", "1", "-", "0", "2", " ", "0", "0", ":", "0", "0", ":", "0", "0">>],
   [raw |-> <<"2", "0", "2", "6", "0", "1", "0", "2", "x", "0", "0">>,
    shown |-> <<"2", "0", "2", "6", "-", "0", "1", "-", "0", "2", " ", "0", "0", ":", "0", "0", ":", "0", "0">>]}

\* text reads YYYY-MM-DD HH:MM:SS
DateTimeShape(text) ==
  /\ Len(text) = 19
  /\ \A i \in 1..19 :
       IF i \in {5, 8} THEN text[i] = "-"
       ELSE IF i = 11 THEN text[i] = " "
       ELSE IF i \in {14, 17} THEN text[i] = ":"
       ELSE text[i] \in {"0", "1", "2", "3", "4", "5", "6", "7", "8", "9"}

DateAsClaimed(end_time) ==
  IF \E row \in IsoParsed : row.raw = end_time
  THEN (CHOOSE row \in IsoParsed : row.raw = end_time).shown
  ELSE end_time

\* C16: an end timestamp that does not parse as ISO-8601 (after "Z" is
\* replaced by "+00:00") is shown as the raw string, unmodified, and the
\* renderer does not fail; one that parses is shown as YYYY-MM-DD HH:MM:SS.
C16_DateOrRawString ==
  text_in # << >> =>
    /\ \A doc \in {text_out.html, text_out.svg, text_out.plugin} :
         doc.date_str = DateAsClaimed(text_in.sd.end_time)
    /\ (\E row \in IsoParsed : row.raw = text_in.sd.end_time)
         => DateTimeShape(text_out.html.date_str)

\* the timestamp parses to a year below 1000
BeforeYear1000(end_time) ==
  \E row \in IsoParsed : row.raw = end_time /\ row.shown[1] = "0"

\* for the years from 1000 on, the date field is as claimed: the raw string
\* when the timestamp does not parse, YYYY-MM-DD HH:MM:SS when it does
C16_DateOrRawStringFromYear1000 ==
  text_in # << >> /\ ~BeforeYear1000(text_in.sd.end_time) =>
    /\ \A doc \in {text_out.html, text_out.svg, text_out.plugin} :
         doc.date_str = DateAsClaimed(text_in.sd.end_time)
    /\ (\E row \in IsoParsed : row.raw = text_in.sd.end_time)
         => DateTimeShape(text_out.html.date_str)

\* a timestamp followed by markup does not parse and is shown as it came
C16_Witness ==
  /\ text_in # << >> /\ text_in.field = "end_time" /\ text_in.appended > 0
  /\ ~ \E row \in IsoParsed : row.raw = text_in.sd.end_time
  /\ Len(text_in.sd.end_time) > 20
  /\ text_in.sd.end_time[Len(text_in.sd.end_time)] = "<"
  /\ text_out.html.date_str = text_in.sd.end_time

\* a run that has saved a receipt
SavedReceipt(r) == r.stdout # << >>

\* no end timestamp is to be had: the transcript is missing, is empty, or
\* none of its lines yields one
Unavailable(hook) ==
  \/ hook.transcript.kind = "missing"
  \/ hook.transcript.kind = "lines" /\ Timestamped(hook.transcript.lines) = {}

\* the transcript yields an end timestamp that is not ISO-8601
Unparsable(hook) ==
  /\ hook.transcript.kind = "lines" /\ Timestamped(hook.transcript.lines) # {}
  /\ ~ \E row \in IsoParsed : row.raw = EndTimeAsClaimed(hook.transcript.lines)

\* the current time as a receipt shows it
NowShown == <<"2", "0", "2", "6", "-", "1", "0", "-", "2", "9", " ", "2", "2", ":", "0", "0", ":", "0", "0">>

\* C17 as stated: the end timestamp shown on the receipt is the current time
\* whenever the session's end timestamp is unavailable (transcript missing,
\* empty, or no line yields a timestamp) or unparsable.
C17_CurrentTimeWhenUnavailableOrUnparsable ==
  \A p \in Procs :
     SavedReceipt(runs[p]) /\ (Unavailable(runs[p].hook) \/ Unparsable(runs[p].hook))
       => runs[p].doc.date_str = NowShown

\* C17, amended: the end timestamp shown on the receipt is the current time
\* whenever the session's end timestamp is unavailable (transcript missing,
\* empty, or no line yields a timestamp); a timestamp that is there but does
\* not parse is shown as the raw string, not replaced by the current time.
C17_CurrentTimeWhenUnavailable ==
  \A p \in Procs :
     SavedReceipt(runs[p]) =>
       /\ Unavailable(runs[p].hook) => runs[p].doc.date_str = NowShown
       /\ Unparsable(runs[p].hook) =>
            /\ runs[p].doc.date_str = EndTimeAsClaimed(runs[p].hook.transcript.lines)
            /\ runs[p].doc.date_str # NowShown

\* a receipt was saved for a transcript that has lines, none with a
\* timestamp, and shows the current time
C17_Witness ==
  \E p \in Procs :
     /\ SavedReceipt(runs[p]) /\ runs[p].hook.transcript.kind = "lines"
     /\ Len(runs[p].hook.transcript.lines) = MaxLines
     /\ Timestamped(runs[p].hook.transcript.lines) = {}
     /\ runs[p].doc.date_str = NowShown

(***************************************************************************)
(* Durations, checked under TextSpec.                                      *)
(***************************************************************************)
DurationAsClaimed(ms) ==
  LET s == ms \div 1000
      m == s \div 60
      h == s \div 3600
  IN  IF s < 60 THEN ToString(s) \o "s"
      ELSE IF s < 3600 THEN ToString(m) \o "m " \o ToString(s % 60) \o "s"
      ELSE ToString(h) \o "h " \o ToString(m % 60) \o "m " \o ToString(s % 60) \o "s"

\* C18: format_duration(ms) is "<s>s" below a minute, "<m>m <s mod 60>s"
\* below an hour and "<h>h <m mod 60>m <s mod 60>s" from an hour on, s, m, h
\* the whole seconds, minutes, hours of ms; 45000 -> "45s", 125000 ->
\* "2m 5s", 3725000 -> "1h 2m 5s".
C18_Duration ==
  text_in # << >> =>
    /\ \A doc \in {text_out.html, text_out.svg, text_out.plugin} :
         doc.duration_str = DurationAsClaimed(text_in.sd.active_time_ms)
    /\ text_in.sd.active_time_ms = 45000 => text_out.html.duration_str = "45s"
    /\ text_in.sd.active_time_ms = 125000 => text_out.html.duration_str = "2m 5s"
    /\ text_in.sd.active_time_ms = 3725000 => text_out.html.duration_str = "1h 2m 5s"
    /\ text_in.sd.active_time_ms = 59999 => text_out.html.duration_str = "59s"
    /\ text_in.sd.active_time_ms = 3600000 => text_out.html.duration_str = "1h 0m 0s"

\* an hour was added to 2 m 5 s: the three units are shown
C18_Witness ==
  /\ text_in # << >> /\ text_in.field = "active_time_ms" /\ text_in.appended = 1
  /\ text_in.sd.active_time_ms = 3725000
  /\ text_out.html.duration_str = "1h 2m 5s"

(***************************************************************************)
(* The served-by label, checked under TextSpec.                            *)
(***************************************************************************)
\* the value of a hexadecimal character, either case; -1 for any other
HexValueOf(c) ==
  CASE c = "0" -> 0 [] c = "1" -> 1 [] c = "2" -> 2 [] c = "3" -> 3
    [] c = "4" -> 4 [] c = "5" -> 5 [] c = "6" -> 6 [] c = "7" -> 7
    [] c = "8" -> 8 [] c = "9" -> 9
    [] c \in {"a", "A"} -> 10 [] c \in {"b", "B"} -> 11 [] c \in {"c", "C"} -> 12
    [] c \in {"d", "D"} -> 13 [] c \in {"e", "E"} -> 14 [] c \in {"f", "F"} -> 15
    [] OTHER -> -1

HexShown == <<"0", "1", "2", "3", "4", "5", "6", "7", "8", "9",
              "A", "B", "C", "D", "E", "F">>

\* the values of the hexadecimal characters of text, in order
HexValues(text) ==
  LET keep == {i \in 1..Len(text) : HexValueOf(text[i]) >= 0}
      nth(k) == CHOOSE i \in keep : Cardinality({j \in keep : j <= i}) = k
  IN  [k \in 1..Cardinality(keep) |-> HexValueOf(text[nth(k)])]

\* the k-th of them, 0 where the identifier has fewer (the padding)
HexValueAt(text, k) ==
  IF k <= Len(HexValues(text)) THEN HexValues(text)[k] ELSE 0

ClaimedPrefixes ==
  <<"R2", "C3", "BB", "K2", "IG", "BD", "QT", "AP", "RX", "TC", "GNK", "WED">>

\* the characters of a sequence written as one string
RECURSIVE AsString(_)
AsString(text) == IF text = << >> THEN "" ELSE text[1] \o AsString(Tail(text))

\* C20: generate_droid_name(session_id) is defined for every string: with
\* the hexadecimal characters of the identifier (either case), padded with
\* "0" to 8, it is prefixes[first hex digit mod 12], "-", and the next three
\* hex characters; the same identifier always gives the same name.
C20_DroidName ==
  text_in # << >> =>
    LET id == text_in.sd.session_id
    IN  /\ text_out.html.droid_name = text_out.svg.droid_name
        /\ AsString(text_out.html.droid_name)
             = ClaimedPrefixes[(HexValueAt(id, 1) % 12) + 1] \o "-"
               \o HexShown[HexValueAt(id, 2) + 1] \o HexShown[HexValueAt(id, 3) + 1]
               \o HexShown[HexValueAt(id, 4) + 1]
        /\ id = << >> => AsString(text_out.html.droid_name) = "R2-000"

\* an identifier without hexadecimal characters at the start, made longer by
\* a lower-case and an upper-case hex digit and a character that is none
C20_Witness ==
  /\ text_in # << >> /\ text_in.field = "session_id" /\ text_in.appended = MaxAppend
  /\ text_in.sd.session_id = <<"z", "z", "a", "g", "F">>
  /\ text_out.html.droid_name = <<"G", "N", "K", "-", "F", "0", "0">>

(***************************************************************************)
(* Token quantities, checked under FormatSpec.  The billed quantity n is a *)
(* float m * 2^e; the claim is read on its exact value.                    *)
(***************************************************************************)
\* mul * n as a fraction: the numerator (a natural number of any size) over
\* 2^shift
ScaledNum(n, mul) ==
  IF n.e >= 0 THEN BShl(BMulSmall(n.m, mul), n.e) ELSE BMulSmall(n.m, mul)
ScaledShift(n) == IF n.e >= 0 THEN 0 ELSE 0 - n.e

\* floor(mul * n / (s1 * s2))
FloorOf(n, mul, s1, s2) ==
  BToInt(BDivSmall(BDivSmall(BShr(ScaledNum(n, mul), ScaledShift(n)), s1).q, s2).q)

\* (2t + d) * s1 * s2 * 2^shift, for comparing with twice the numerator
Bound(n, t, d, s1, s2) ==
  BShl(BMulSmall(BMulSmall(BOfInt(2 * t + d), s1), s2), ScaledShift(n))

\* t is an integer nearest to mul * n / (s1 * s2): |mul * n / (s1 * s2) - t|
\* is at most 1/2
Nearest(n, mul, s1, s2, t) ==
  /\ t = 0 \/ BCmp(Bound(n, t, -1, s1, s2), BMulSmall(ScaledNum(n, mul), 2)) <= 0
  /\ BCmp(BMulSmall(ScaledNum(n, mul), 2), Bound(n, t, 1, s1, s2)) <= 0

\* the quantities the claim allows for n: tenths of n / (s1 * s2) rounded to
\* the nearest, written with one decimal place and the suffix
OneDecimal(n, s1, s2, suffix) ==
  {ToString(t \div 10) \o "." \o ToString(t % 10) \o suffix :
     t \in {u \in {FloorOf(n, 10, s1, s2), FloorOf(n, 10, s1, s2) + 1} :
              Nearest(n, 10, s1, s2, u)}}

Rounded(n) ==
  {ToString(t) : t \in {u \in {FloorOf(n, 1, 1, 1), FloorOf(n, 1, 1, 1) + 1} :
                          Nearest(n, 1, 1, 1, u)}}

\* C19: format_tokens(n) is n / 1,000,000 with one decimal place and "M"
\* for n >= 1,000,000, n / 1,000 with one decimal place and "K" for
\* 1,000 <= n < 1,000,000, and n rounded to an integer below 1,000, for
\* every billed quantity n >= 0, fractional ones included; 999 -> "999",
\* 1500 -> "1.5K", 2300000 -> "2.3M".
C19_TokenQuantity ==
  fmt_in # << >> =>
    /\ fmt_out \in (IF FLe(FOfInt(1000000), fmt_in.n)
                    THEN OneDecimal(fmt_in.n, 1000, 1000, "M")
                    ELSE IF FLe(FOfInt(1000), fmt_in.n)
                    THEN OneDecimal(fmt_in.n, 1000, 1, "K")
                    ELSE Rounded(fmt_in.n))
    /\ fmt_in.model = <<"unknown">> =>
         /\ fmt_in.raw = 999 => fmt_out = "999"
         /\ fmt_in.raw = 1000 => fmt_out = "1.0K"
         /\ fmt_in.raw = 1500 => fmt_out = "1.5K"
         /\ fmt_in.raw = 1000000 => fmt_out = "1.0M"
         /\ fmt_in.raw = 2300000 => fmt_out = "2.3M"

\* 83330 raw tokens at multiplier 0.12 are billed as 9999.6 (not an
\* integer) and shown as "10.0K"
C19_Witness ==
  /\ fmt_in # << >> /\ fmt_in.steps = 1
  /\ fmt_in.raw = 83330 /\ fmt_in.model = <<"minimax-m2.5">>
  /\ fmt_in.n # FOfInt(9999) /\ FLt(FOfInt(9999), fmt_in.n) /\ FLt(fmt_in.n, FOfInt(10000))
  /\ fmt_out = "10.0K"

(***************************************************************************)
(* The two renderers of src/hooks side by side, checked under PricingSpec. *)
(***************************************************************************)
\* the quantity and price strings of the line items of a document, and its
\* TOTAL string; a renderer that raised displays nothing
Displayed(doc) ==
  IF doc.exc = "" THEN [items |-> doc.items, total |-> doc.total]
  ELSE [items |-> << >>, total |-> ""]

\* C21: for every session record generate_html and generate_svg return
\* documents that display the same quantity string and the same price string
\* for each line item present, and the same TOTAL string.
C21_SameFigures ==
  /\ html.exc = "" /\ svg.exc = ""
  /\ Displayed(svg) = Displayed(html)

\* up to the point where generate_svg raises, the input and output line
\* items it has formatted are those of generate_html
C21_FixedItemsAgree ==
  \A i \in 1..2 : svg.items[i] = html.items[i]

(***************************************************************************)
(* A format setting that names no format, checked under Spec.              *)
(***************************************************************************)
\* a run of src/hooks with valid token data, a transcript it can read and a
\* disk it can write, whose format setting, lower-cased, is none of "html",
\* "svg", "both"
UnknownFormat(hook) ==
  /\ hook.script = "hooks" /\ hook.stdin = "object" /\ ~hook.read_only
  /\ hook.settings \in GoodSettings /\ hook.transcript = GoodTranscript
  /\ hook.env.set
  /\ Lower(hook.env.val) \notin {<<"h", "t", "m", "l">>, <<"s", "v", "g">>, <<"b", "o", "t", "h">>}

\* C22: a run with valid token data whose format setting names no format
\* writes no receipt file and prints no diagnostic at any step, ends with
\* exit status 0, and changes nothing on the file system except that the
\* receipts directory exists afterwards.
C22_UnknownFormatWritesNothing ==
  /\ [](\A p \in Procs :
          UnknownFormat(runs[p].hook) =>
            /\ runs[p].stderr = << >> /\ runs[p].stdout = << >>
            /\ runs[p].wrote = {} /\ runs[p].exit_code \in {-1, 0}
            /\ runs[p].pc = "done" => runs[p].exit_code = 0 /\ RECEIPTS_DIR \in dirs)
  /\ [][ \A p \in Procs :
           UnknownFormat(runs[p].hook) /\ runs'[p] # runs[p] =>
             /\ files' = files
             /\ dirs \subseteq dirs' /\ dirs' \subseteq dirs \cup Prefixes(RECEIPTS_DIR) ]_vars

\* a run with the misspelt setting "htm" has ended: it made the receipts
\* directory, wrote nothing, and the earlier receipts of its session are as
\* they were
C22_Witness ==
  \E p \in Procs :
     /\ UnknownFormat(runs[p].hook) /\ runs[p].hook.env.val = <<"h", "t", "m">>
     /\ runs[p].pc = "done" /\ runs[p].exit_code = 0
     /\ runs[p].stderr = << >> /\ runs[p].stdout = << >>
     /\ RECEIPTS_DIR \in dirs
     /\ \/ runs[p].made_dir /\ DOMAIN files = {}
        \/ files = OldReceipts

(***************************************************************************)
(* Rendering and writing, checked under Spec.                              *)
(***************************************************************************)
\* the run has ended in a failure of the renderer of its next document
RenderFailed(r) ==
  /\ r.pc = "done" /\ r.pending # << >>
  /\ render(r.hook.script, r.pending[1], r.session_data).exc # ""
  /\ r.stderr # << >>

\* the receipt of format f of run p is on disk, whole
ReceiptInPlace(p, f) ==
  /\ open_file(receipt_path(runs[p].session_data.session_id, f), dirs) \in DOMAIN files
  /\ files[open_file(receipt_path(runs[p].session_data.session_id, f), dirs)]
       = WholeReceipt(p, f)

\* C23: a receipt file is opened and written only when its whole document
\* has been rendered without failure; in "both" mode the HTML receipt is on
\* disk, whole, when the SVG document is rendered; and the step in which a
\* renderer fails changes no file and no directory, so that afterwards the
\* receipts the run wrote before are in place and every other file,
\* an earlier receipt of the format that failed included, is as it was.
C23_RenderBeforeOpen ==
  /\ [][ \A p \in Procs :
           runs'[p] # runs[p] =>
             /\ files' # files =>
                  /\ runs[p].pc \in {"open", "write"}
                  /\ runs[p].doc.exc = ""
                  /\ runs[p].doc = render(runs[p].hook.script, runs[p].pending[1],
                                          runs[p].session_data)
             /\ runs[p].pc = "render" /\ RenderFailed(runs'[p]) =>
                  files' = files /\ dirs' = dirs ]_vars
  /\ [](\A p \in Procs :
          /\ /\ runs[p].pc \in {"render", "open", "write"}
             /\ runs[p].hook.script = "hooks"
             /\ output_format(runs[p].hook.env) = <<"b", "o", "t", "h">>
             /\ runs[p].pending = <<"svg">>
             => ReceiptInPlace(p, "html")
          /\ RenderFailed(runs[p]) =>
               /\ \A i \in 1..Len(runs[p].stdout) : ReceiptInPlace(p, runs[p].stdout[i])
               /\ \A q \in DOMAIN files \ runs[p].wrote :
                    q \in DOMAIN OldReceipts /\ files[q] = OldReceipts[q])

\* a run in "both" mode on session "a", whose earlier receipts were on disk,
\* has ended in the failure of the SVG renderer: the HTML receipt it wrote is
\* in place and the earlier SVG receipt is as it was
C23_Witness ==
  \E p \in Procs :
     /\ RenderFailed(runs[p])
     /\ runs[p].hook.script = "hooks" /\ output_format(runs[p].hook.env) = <<"b", "o", "t", "h">>
     /\ runs[p].pending = <<"svg">> /\ runs[p].stdout = <<"html">>
     /\ ReceiptInPlace(p, "html")
     /\ DOMAIN files = DOMAIN OldReceipts
     /\ files[receipt_path(<<"a">>, "html")] # OldReceipts[receipt_path(<<"a">>, "html")]
     /\ files[receipt_path(<<"a">>, "svg")] = OldReceipts[receipt_path(<<"a">>, "svg")]
====
